---- MODULE Spec2Model ----
(***************************************************************************)
(* Rotating quorum membership of xcoincoder/dash (src/llmq): the quarter   *)
(* builder and its reader (utils.cpp), the snapshot codec (snapshot.h),    *)
(* the snapshot manager and the rotation info (snapshot.cpp), the          *)
(* membership caches of GetAllQuorumMembers and the quorum connection      *)
(* planning (utils.cpp).                                                   *)
(*                                                                         *)
(* Conventions.                                                            *)
(*  - A masternode is its proTxHash, a number in 1..NumMN. A masternode    *)
(*    list is the sequence of its masternodes in canonical iteration order.*)
(*  - A block is its height; its hash is the height (one chain, no forks). *)
(*  - C++ indices are 0-based and kept 0-based; element k of a vector v is *)
(*    v[k + 1] here.                                                       *)
(*  - A size_t that wrapped below zero is kept as the negative number x    *)
(*    that stands for 2^64 + x: it is never 0 and never below a length.    *)
(***************************************************************************)
EXTENDS Integers, Sequences, FiniteSets, TLC

\* ------------------------------------------------------------------ bounds
NumMN == 6
NumModifiers == 3
MaxBits == 8
MaxSkipLen == 2
MaxHeight == 8
MaxCalls == 4

MNs == 1..NumMN

\* ----------------------------------------------------------- small helpers
Min(a, b) == IF a < b THEN a ELSE b

Range(s) == {s[k] : k \in 1..Len(s)}

Contains(s, x) == \E k \in 1..Len(s) : s[k] = x

NoDuplicates(s) == \A j, k \in 1..Len(s) : j # k => s[j] # s[k]

RECURSIVE Flatten(_)
Flatten(ss) == IF ss = <<>> THEN <<>> ELSE Head(ss) \o Flatten(Tail(ss))

RECURSIVE AscendingSeq(_)
AscendingSeq(S) ==
    IF S = {} THEN <<>>
    ELSE LET m == CHOOSE x \in S : \A y \in S : x <= y
         IN <<m>> \o AscendingSeq(S \ {m})

\* ------------------------------------------------------------- LLMQ params
\* The quorum types the model runs: size, signingActiveQuorumCount (n) and
\* dkgInterval (c) of each.
LLMQParamsSet ==
    { [size |-> 4, signingActiveQuorumCount |-> 1, dkgInterval |-> 2],
      [size |-> 4, signingActiveQuorumCount |-> 2, dkgInterval |-> 2],
      [size |-> 8, signingActiveQuorumCount |-> 1, dkgInterval |-> 2] }

\* ------------------------------------------------- masternode lists, hashes
\* H(proTxHash || modifier): a score without ties among the masternodes 1..10.
Score(mn, modifier) == (mn * modifier) % 11

ScoreBefore(a, b, modifier) ==
    \/ Score(a, modifier) < Score(b, modifier)
    \/ Score(a, modifier) = Score(b, modifier) /\ a <= b

RECURSIVE SortByScore(_, _)
SortByScore(S, modifier) ==
    IF S = {} THEN <<>>
    ELSE LET m == CHOOSE x \in S : \A y \in S : ScoreBefore(x, y, modifier)
         IN <<m>> \o SortByScore(S \ {m}, modifier)

\* CDeterministicMNList::CalculateQuorum(maxSize, modifier)
CalculateQuorum(list, maxSize, modifier) ==
    LET sorted == SortByScore(Range(list), modifier)
    IN SubSeq(sorted, 1, Min(maxSize, Len(sorted)))

\* CDeterministicMNList::AddMN, ContainsMN, GetAllMNsCount
AddMN(list, mn) == IF Contains(list, mn) THEN list ELSE Append(list, mn)

ContainsMN(list, mn) == Contains(list, mn)

GetAllMNsCount(list) == Len(list)

RECURSIVE AddAllMNs(_, _)
AddAllMNs(list, mns) ==
    IF mns = <<>> THEN list ELSE AddAllMNs(AddMN(list, Head(mns)), Tail(mns))

\* ------------------------------------------------------------ the snapshot
MODE_NO_SKIPPING == 0
MODE_SKIPPING_ENTRIES == 1
MODE_NO_SKIPPING_ENTRIES == 2
MODE_ALL_SKIPPED == 3

\* CQuorumSnapshot() = default, as `CQuorumSnapshot quorumSnapshot = {}` makes it
EmptySnapshot ==
    [activeQuorumMembers |-> <<>>, mnSkipListMode |-> 0, mnSkipList |-> <<>>]

\* n quarter lists, all empty: quarterQuorumMembers.resize(n)
EmptyQuarters(n) == [i \in 1..n |-> <<>>]

\* PreviousQuorumQuarters after the three resize calls
EmptyPreviousQuarters(n) ==
    [quarterHMinusC |-> EmptyQuarters(n),
     quarterHMinus2C |-> EmptyQuarters(n),
     quarterHMinus3C |-> EmptyQuarters(n)]

\* ----------------------------------------------- slicing quarters off a list
\* for i in [0, n): quarter i takes sliced(0, quarterSize) of the list, which is
\* then erased from the list. Slicing more than the list holds is undefined
\* (boost's sliced and vector::erase past the end): status "ub".
RECURSIVE SliceQuartersNoErase(_, _, _, _, _)
SliceQuartersNoErase(i, list, quarters, n, quarterSize) ==
    IF i > n THEN [status |-> "ok", quarters |-> quarters]
    ELSE IF Len(list) < quarterSize THEN [status |-> "ub", quarters |-> quarters]
    ELSE SliceQuartersNoErase(i + 1, list,
             [quarters EXCEPT ![i] = @ \o SubSeq(list, 1, quarterSize)],
             n, quarterSize)

RECURSIVE SliceQuarters(_, _, _, _, _)
SliceQuarters(i, list, quarters, n, quarterSize) ==
    IF i > n THEN [status |-> "ok", quarters |-> quarters]
    ELSE IF Len(list) < quarterSize THEN [status |-> "ub", quarters |-> quarters]
    ELSE SliceQuarters(i + 1, SubSeq(list, quarterSize + 1, Len(list)),
             [quarters EXCEPT ![i] = @ \o SubSeq(list, 1, quarterSize)],
             n, quarterSize)

\* ------------------------------------------------ BuildQuorumSnapshotSkipList
\* static_cast<int>(first_entry_index - index): the size_t difference wraps and
\* its low 32 bits, read as signed, are first_entry_index - index.
SkipListDelta(first_entry_index, index) == first_entry_index - index

\* The loop with the test of mode 1 whatever the mode: masternodes of mnUsedAtH
\* are recorded and never pushed.
RECURSIVE SkipListLoopSkippingUsed(_, _, _, _, _, _, _, _, _)
SkipListLoopSkippingUsed(i, index, first_entry_index, skipList, quarters, sortedCombinedMns, mnUsedAtH, recordUsed, llmqParams) ==
    LET n == llmqParams.signingActiveQuorumCount
        quarterSize == llmqParams.size \div 4
    IN IF i > n THEN [mnSkipList |-> skipList, quarters |-> quarters]
       ELSE IF Len(quarters[i]) < quarterSize /\ index < Len(sortedCombinedMns)
       THEN LET mn == sortedCombinedMns[index + 1]
            IN IF ContainsMN(mnUsedAtH, mn)
               THEN SkipListLoopSkippingUsed(i, index + 1,
                        IF first_entry_index = 0 THEN index ELSE first_entry_index,
                        Append(skipList, IF first_entry_index = 0 THEN index
                                         ELSE first_entry_index - index),
                        quarters, sortedCombinedMns, mnUsedAtH, recordUsed, llmqParams)
               ELSE SkipListLoopSkippingUsed(i, index + 1, first_entry_index, skipList,
                        [quarters EXCEPT ![i] = Append(@, mn)],
                        sortedCombinedMns, mnUsedAtH, recordUsed, llmqParams)
       ELSE SkipListLoopSkippingUsed(i + 1, index, first_entry_index, skipList, quarters,
                sortedCombinedMns, mnUsedAtH, recordUsed, llmqParams)

\* The loops of mode 1 and mode 2. They differ in the test only: mode 1 records
\* an entry when the masternode is in mnUsedAtH (recordUsed), mode 2 when it is
\* not; the other masternodes are pushed into quarter i.
RECURSIVE SkipListLoop(_, _, _, _, _, _, _, _, _)
SkipListLoop(i, index, first_entry_index, skipList, quarters, sortedCombinedMns, mnUsedAtH, recordUsed, llmqParams) ==
    LET n == llmqParams.signingActiveQuorumCount
        quarterSize == llmqParams.size \div 4
    IN IF i > n THEN [mnSkipList |-> skipList, quarters |-> quarters]
       ELSE IF Len(quarters[i]) < quarterSize /\ index < Len(sortedCombinedMns)
       THEN LET mn == sortedCombinedMns[index + 1]
            IN IF ContainsMN(mnUsedAtH, mn) = recordUsed
               THEN IF first_entry_index = 0
                    THEN SkipListLoop(i, index + 1, index, Append(skipList, index),
                             quarters, sortedCombinedMns, mnUsedAtH, recordUsed,
                             llmqParams)
                    ELSE SkipListLoop(i, index + 1, first_entry_index,
                             Append(skipList, SkipListDelta(first_entry_index, index)),
                             quarters, sortedCombinedMns, mnUsedAtH, recordUsed,
                             llmqParams)
               ELSE SkipListLoop(i, index + 1, first_entry_index, skipList,
                        [quarters EXCEPT ![i] = Append(@, mn)],
                        sortedCombinedMns, mnUsedAtH, recordUsed, llmqParams)
       ELSE SkipListLoop(i + 1, index, first_entry_index, skipList, quarters,
                sortedCombinedMns, mnUsedAtH, recordUsed, llmqParams)

\* The function with mode 1 selected up to and including half of the list.
BuildQuorumSnapshotSkipListInclusive(llmqParams, mnUsedAtH, sortedCombinedMns, snapshot) ==
    LET n == llmqParams.signingActiveQuorumCount
        quarterSize == llmqParams.size \div 4
    IN IF GetAllMNsCount(mnUsedAtH) = 0
       THEN LET r == SliceQuarters(1, sortedCombinedMns, EmptyQuarters(n), n, quarterSize)
            IN [status |-> r.status,
                snapshot |-> [snapshot EXCEPT !.mnSkipListMode = MODE_NO_SKIPPING,
                                              !.mnSkipList = <<>>],
                size |-> 0,
                oob |-> n >= 1 /\ quarterSize >= 1 /\ Len(sortedCombinedMns) >= 1,
                quarters |-> r.quarters]
       ELSE IF GetAllMNsCount(mnUsedAtH) <= Len(sortedCombinedMns) \div 2
       THEN LET r == SkipListLoop(1, 0, 0, snapshot.mnSkipList, EmptyQuarters(n),
                         sortedCombinedMns, mnUsedAtH, TRUE, llmqParams)
            IN [status |-> "ok",
                snapshot |-> [snapshot EXCEPT !.mnSkipListMode = MODE_SKIPPING_ENTRIES,
                                              !.mnSkipList = r.mnSkipList],
                size |-> 0,
                oob |-> n >= 1,
                quarters |-> r.quarters]
       ELSE LET r == SkipListLoop(1, 0, 0, snapshot.mnSkipList, EmptyQuarters(n),
                         sortedCombinedMns, mnUsedAtH, FALSE, llmqParams)
            IN [status |-> "ok",
                snapshot |-> [snapshot EXCEPT !.mnSkipListMode = MODE_NO_SKIPPING_ENTRIES,
                                              !.mnSkipList = r.mnSkipList],
                size |-> 0,
                oob |-> n >= 1,
                quarters |-> r.quarters]

\* What the function leaves behind: the snapshot's mode and skip list, and the
\* quarter lists. quarterMembers.resize(quarterSize); quarterMembers.clear()
\* leaves the vector with size() = 0 (field size), so every quarterMembers[i]
\* that follows is an access past the end (field oob): the quarters below are
\* what an unchecked build leaves in the n slots of the vector's storage.
BuildQuorumSnapshotSkipList(llmqParams, mnUsedAtH, sortedCombinedMns, snapshot) ==
    LET n == llmqParams.signingActiveQuorumCount
        quarterSize == llmqParams.size \div 4
    IN IF GetAllMNsCount(mnUsedAtH) = 0
       THEN LET r == SliceQuarters(1, sortedCombinedMns, EmptyQuarters(n), n, quarterSize)
            IN [status |-> r.status,
                snapshot |-> [snapshot EXCEPT !.mnSkipListMode = MODE_NO_SKIPPING,
                                              !.mnSkipList = <<>>],
                size |-> 0,
                oob |-> n >= 1 /\ quarterSize >= 1 /\ Len(sortedCombinedMns) >= 1,
                quarters |-> r.quarters]
       ELSE IF GetAllMNsCount(mnUsedAtH) < Len(sortedCombinedMns) \div 2
       THEN LET r == SkipListLoop(1, 0, 0, snapshot.mnSkipList, EmptyQuarters(n),
                         sortedCombinedMns, mnUsedAtH, TRUE, llmqParams)
            IN [status |-> "ok",
                snapshot |-> [snapshot EXCEPT !.mnSkipListMode = MODE_SKIPPING_ENTRIES,
                                              !.mnSkipList = r.mnSkipList],
                size |-> 0,
                oob |-> n >= 1,
                quarters |-> r.quarters]
       ELSE LET r == SkipListLoop(1, 0, 0, snapshot.mnSkipList, EmptyQuarters(n),
                         sortedCombinedMns, mnUsedAtH, FALSE, llmqParams)
            IN [status |-> "ok",
                snapshot |-> [snapshot EXCEPT !.mnSkipListMode = MODE_NO_SKIPPING_ENTRIES,
                                              !.mnSkipList = r.mnSkipList],
                size |-> 0,
                oob |-> n >= 1,
                quarters |-> r.quarters]

\* ---------------------------------------------------------- BuildQuorumSnapshot
\* A bit-set with as many bits set as mnUsedAtH has masternodes, the first ones.
ActiveQuorumMembersFirstBits(mnAtH, mnUsedAtH) ==
    [k \in 1..GetAllMNsCount(mnAtH) |-> k <= GetAllMNsCount(mnUsedAtH)]

\* activeQuorumMembers: one bit per masternode of the list at H, in iteration
\* order, set iff the masternode is in mnUsedAtH.
ActiveQuorumMembersBits(mnAtH, mnUsedAtH) ==
    [k \in 1..GetAllMNsCount(mnAtH) |-> ContainsMN(mnUsedAtH, mnAtH[k])]

BuildQuorumSnapshot(llmqParams, mnAtH, mnUsedAtH, sortedCombinedMns, snapshot) ==
    BuildQuorumSnapshotSkipList(llmqParams, mnUsedAtH, sortedCombinedMns,
        [snapshot EXCEPT !.activeQuorumMembers = ActiveQuorumMembersBits(mnAtH, mnUsedAtH)])

\* ------------------------------------------------- BuildNewQuorumQuarterMembers
\* MnsUsedAtH: AddMN of every member of quarter i of H-C, H-2C, H-3C, i in [0, n)
RECURSIVE UsedAtH(_, _, _)
UsedAtH(i, n, previousQuarters) ==
    IF i > n THEN <<>>
    ELSE previousQuarters.quarterHMinusC[i] \o previousQuarters.quarterHMinus2C[i]
         \o previousQuarters.quarterHMinus3C[i] \o UsedAtH(i + 1, n, previousQuarters)

MnsUsedAtH(llmqParams, previousQuarters) ==
    AddAllMNs(<<>>, UsedAtH(1, llmqParams.signingActiveQuorumCount, previousQuarters))

MnsNotUsedAtH(allMns, mnsUsedAtH) ==
    LET notUsed(mn) == ~ContainsMN(mnsUsedAtH, mn)
    IN SelectSeq(allMns, notUsed)

\* sortedMnsNotUsedAtH followed by sortedMnsUsedAtH
SortedCombinedMnsList(mnsUsedAtH, mnsNotUsedAtH, modifier) ==
    CalculateQuorum(mnsNotUsedAtH, GetAllMNsCount(mnsNotUsedAtH), modifier)
    \o CalculateQuorum(mnsUsedAtH, GetAllMNsCount(mnsUsedAtH), modifier)

\* The pure part of BuildNewQuorumQuarterMembers: the snapshot it hands to
\* StoreSnapshotForBlock and the quarters it returns.
BuildNewQuorumQuarterMembers(llmqParams, allMns, modifier, previousQuarters) ==
    LET used == MnsUsedAtH(llmqParams, previousQuarters)
        notUsed == MnsNotUsedAtH(allMns, used)
        combined == SortedCombinedMnsList(used, notUsed, modifier)
    IN BuildQuorumSnapshot(llmqParams, allMns, used, combined, EmptySnapshot)


\* --------------------------------------------------------- GetMNUsageBySnapshot
\* The masternodes of the list at the block whose bit is set, and the others.
\* snapshot.activeQuorumMembers[i] is read for every i below the list's size:
\* with a shorter bit-set the read is past the end (ok = FALSE).
RECURSIVE MNUsageLoop(_, _, _, _)
MNUsageLoop(i, Mns, bits, acc) ==
    IF i >= Len(Mns) THEN acc
    ELSE IF i >= Len(bits) THEN [acc EXCEPT !.ok = FALSE]
    ELSE IF bits[i + 1]
         THEN MNUsageLoop(i + 1, Mns, bits, [acc EXCEPT !.usedMNs = AddMN(@, Mns[i + 1])])
         ELSE MNUsageLoop(i + 1, Mns, bits, [acc EXCEPT !.nonUsedMNs = AddMN(@, Mns[i + 1])])

GetMNUsageBySnapshot(Mns, snapshot) ==
    MNUsageLoop(0, Mns, snapshot.activeQuorumMembers,
                [ok |-> TRUE, usedMNs |-> <<>>, nonUsedMNs |-> <<>>])

\* -------------------------------------------- GetQuorumQuarterMembersBySnapshot
\* The loop over snapshot.mnSkipList of mode 1 and of mode 2: the indices into
\* sortedCombinedMnsList it looks up with at(). first_entry_index is a size_t:
\* an entry s is converted to it, and at() throws std::out_of_range for an
\* index that is not below the list's size (status "throw").
RECURSIVE DecodeSkipList(_, _, _, _, _)
DecodeSkipList(k, first_entry_index, indices, mnSkipList, size) ==
    IF k > Len(mnSkipList) THEN [status |-> "ok", indices |-> indices]
    ELSE LET s == mnSkipList[k]
             idx == IF first_entry_index = 0 THEN s ELSE first_entry_index + s
             first == IF first_entry_index = 0 THEN s ELSE first_entry_index
         IN IF idx < 0 \/ idx >= size
            THEN [status |-> "throw", indices |-> indices]
            ELSE DecodeSkipList(k + 1, first, Append(indices, idx), mnSkipList, size)

\* A partition that drops the elements that do not satisfy the predicate.
StablePartitionDropping(list, front) ==
    LET inFront(x) == x \in front IN SelectSeq(list, inFront)

\* std::stable_partition: the elements that satisfy the predicate (those of
\* the set front), then the others, each group in its original order.
StablePartition(list, front) ==
    LET inFront(x) == x \in front
        notInFront(x) == x \notin front
    IN SelectSeq(list, inFront) \o SelectSeq(list, notInFront)

GetQuorumQuarterMembersBySnapshot(llmqParams, Mns, modifier, snapshot) ==
    LET numQuorums == llmqParams.signingActiveQuorumCount
        quarterSize == llmqParams.size \div 4
        usage == GetMNUsageBySnapshot(Mns, snapshot)
        sortedCombinedMnsList ==
            SortedCombinedMnsList(usage.usedMNs, usage.nonUsedMNs, modifier)
        decoded == DecodeSkipList(1, 0, <<>>, snapshot.mnSkipList,
                                  Len(sortedCombinedMnsList))
        listed == {sortedCombinedMnsList[x + 1] : x \in Range(decoded.indices)}
    IN IF ~usage.ok
       THEN [status |-> "ub", quarters |-> EmptyQuarters(numQuorums)]
       ELSE IF snapshot.mnSkipListMode = MODE_NO_SKIPPING
       THEN SliceQuarters(1, sortedCombinedMnsList, EmptyQuarters(numQuorums),
                          numQuorums, quarterSize)
       ELSE IF snapshot.mnSkipListMode = MODE_SKIPPING_ENTRIES
       THEN IF decoded.status = "throw"
            THEN [status |-> "throw", quarters |-> EmptyQuarters(numQuorums)]
            ELSE SliceQuarters(1, StablePartition(sortedCombinedMnsList,
                                   Range(sortedCombinedMnsList) \ listed),
                               EmptyQuarters(numQuorums), numQuorums, quarterSize)
       ELSE IF snapshot.mnSkipListMode = MODE_NO_SKIPPING_ENTRIES
       THEN IF decoded.status = "throw"
            THEN [status |-> "throw", quarters |-> EmptyQuarters(numQuorums)]
            ELSE SliceQuarters(1, StablePartition(sortedCombinedMnsList, listed),
                               EmptyQuarters(numQuorums), numQuorums, quarterSize)
       ELSE [status |-> "ok", quarters |-> EmptyQuarters(numQuorums)]


\* ============================================================ snapshot codec
\* A stream is a sequence of bytes (0..255).

\* operator<< of an int: 4 bytes, little-endian, two's complement
WriteInt32(v) ==
    << v % 256, (v \div 256) % 256, (v \div 65536) % 256, (v \div 16777216) % 256 >>

\* operator>> of an int, from 4 bytes
ReadInt32(b) ==
    b[1] + 256 * b[2] + 65536 * b[3]
      + 16777216 * (IF b[4] >= 128 THEN b[4] - 256 ELSE b[4])

\* WriteCompactSize (sizes of 2^32 and more do not arise: 0xFF + 8 bytes)
WriteCompactSize(nSize) ==
    IF nSize < 253 THEN << nSize >>
    ELSE IF nSize <= 65535 THEN << 253, nSize % 256, nSize \div 256 >>
    ELSE << 254, nSize % 256, (nSize \div 256) % 256, (nSize \div 65536) % 256,
            (nSize \div 16777216) % 256 >>

\* WriteFixedBitSet(s, vec, size): (size + 7) / 8 bytes, bit p of the vector in
\* byte p / 8 at bit p % 8, the bits past size left zero.
BitValue(vec, p) == IF p < Len(vec) /\ vec[p + 1] THEN 1 ELSE 0

FixedBitSetByte(vec, size, j) ==
    LET bit(k) == IF 8 * j + k < size THEN BitValue(vec, 8 * j + k) ELSE 0
    IN bit(0) + 2 * bit(1) + 4 * bit(2) + 8 * bit(3)
       + 16 * bit(4) + 32 * bit(5) + 64 * bit(6) + 128 * bit(7)

WriteFixedBitSet(vec, size) ==
    [j \in 1..((size + 7) \div 8) |-> FixedBitSetByte(vec, size, j - 1)]

RECURSIVE WriteInts(_)
WriteInts(list) ==
    IF list = <<>> THEN <<>> ELSE WriteInt32(Head(list)) \o WriteInts(Tail(list))

\* CQuorumSnapshot::Serialize with the skip-list length left out
SerializeNoSkipListSize(x) ==
    WriteInt32(x.mnSkipListMode)
    \o WriteCompactSize(Len(x.activeQuorumMembers))
    \o WriteFixedBitSet(x.activeQuorumMembers, Len(x.activeQuorumMembers))
    \o WriteInts(x.mnSkipList)

\* CQuorumSnapshot::Serialize
Serialize(x) ==
    WriteInt32(x.mnSkipListMode)
    \o WriteCompactSize(Len(x.activeQuorumMembers))
    \o WriteFixedBitSet(x.activeQuorumMembers, Len(x.activeQuorumMembers))
    \o WriteCompactSize(Len(x.mnSkipList))
    \o WriteInts(x.mnSkipList)

\* Reading: each reader takes the stream and gives [ok, value, rest]; reading
\* past the end of the stream throws (ok = FALSE).
Drop(b, k) == SubSeq(b, k + 1, Len(b))

TakeInt32(b) ==
    IF Len(b) < 4 THEN [ok |-> FALSE, value |-> 0, rest |-> b]
    ELSE [ok |-> TRUE, value |-> ReadInt32(b), rest |-> Drop(b, 4)]

ReadCompactSize(b) ==
    IF Len(b) < 1 THEN [ok |-> FALSE, value |-> 0, rest |-> b]
    ELSE IF b[1] < 253 THEN [ok |-> TRUE, value |-> b[1], rest |-> Drop(b, 1)]
    ELSE IF b[1] = 253
         THEN IF Len(b) < 3 THEN [ok |-> FALSE, value |-> 0, rest |-> b]
              ELSE [ok |-> TRUE, value |-> b[2] + 256 * b[3], rest |-> Drop(b, 3)]
    ELSE [ok |-> FALSE, value |-> 0, rest |-> b]

\* ReadFixedBitSet(s, vec, size): vec.resize(size), then every bit assigned
ReadFixedBitSet(b, size) ==
    LET nBytes == (size + 7) \div 8
    IN IF Len(b) < nBytes THEN [ok |-> FALSE, value |-> <<>>, rest |-> b]
       ELSE [ok |-> TRUE,
             value |-> [p \in 1..size |->
                           (b[((p - 1) \div 8) + 1] \div (2 ^ ((p - 1) % 8))) % 2 = 1],
             rest |-> Drop(b, nBytes)]

\* vector<int>::resize(cnt): the first cnt elements, zero-filled up to cnt
Resize(list, cnt) == [k \in 1..cnt |-> IF k <= Len(list) THEN list[k] ELSE 0]

\* cnt times: int obj; s >> obj; list.push_back(obj)
RECURSIVE ReadInts(_, _, _)
ReadInts(b, cnt, list) ==
    IF cnt = 0 THEN [ok |-> TRUE, value |-> list, rest |-> b]
    ELSE LET r == TakeInt32(b)
         IN IF ~r.ok THEN [ok |-> FALSE, value |-> list, rest |-> b]
            ELSE ReadInts(r.rest, cnt - 1, Append(list, r.value))

\* CQuorumSnapshot::Unserialize into the object `into`:
\* mnSkipList.resize(cnt) comes before the cnt push_back calls.
Unserialize(b, into) ==
    LET mode == TakeInt32(b)
        nBits == ReadCompactSize(mode.rest)
        bits == ReadFixedBitSet(nBits.rest, nBits.value)
        nSkip == ReadCompactSize(bits.rest)
        skip == ReadInts(nSkip.rest, nSkip.value, Resize(into.mnSkipList, nSkip.value))
    IN IF mode.ok /\ nBits.ok /\ bits.ok /\ nSkip.ok /\ skip.ok
       THEN [status |-> "ok",
             snapshot |-> [activeQuorumMembers |-> bits.value,
                           mnSkipListMode |-> mode.value,
                           mnSkipList |-> skip.value]]
       ELSE [status |-> "throw", snapshot |-> into]

\* CQuorumSnapshot of quorums_snapshot.h: every bit of activeQuorumMembers is
\* written as an int, and Unserialize resizes both vectors before it pushes.
RECURSIVE WriteBitsAsInts(_)
WriteBitsAsInts(vec) ==
    IF vec = <<>> THEN <<>>
    ELSE WriteInt32(IF Head(vec) THEN 1 ELSE 0) \o WriteBitsAsInts(Tail(vec))

LegacySerialize(x) ==
    WriteInt32(x.mnSkipListMode)
    \o WriteCompactSize(Len(x.activeQuorumMembers))
    \o WriteBitsAsInts(x.activeQuorumMembers)
    \o WriteCompactSize(Len(x.mnSkipList))
    \o WriteInts(x.mnSkipList)

LegacyUnserialize(b, into) ==
    LET mode == TakeInt32(b)
        nBits == ReadCompactSize(mode.rest)
        bits == ReadInts(nBits.rest, nBits.value, <<>>)
        nSkip == ReadCompactSize(bits.rest)
        skip == ReadInts(nSkip.rest, nSkip.value, Resize(into.mnSkipList, nSkip.value))
    IN IF mode.ok /\ nBits.ok /\ bits.ok /\ nSkip.ok /\ skip.ok
       THEN [status |-> "ok",
             snapshot |-> [activeQuorumMembers |->
                               [k \in 1..nBits.value |->
                                   k <= Len(into.activeQuorumMembers)
                                   /\ into.activeQuorumMembers[k]]
                               \o [k \in 1..Len(bits.value) |-> bits.value[k] # 0],
                           mnSkipListMode |-> mode.value,
                           mnSkipList |-> skip.value]]
       ELSE [status |-> "throw", snapshot |-> into]

\* =========================================================== state variables
VARIABLES
    hardened,                 \* the build checks vector indices (aborts on one past the end)
    bIn, bOut, rOut,          \* builder study: inputs, what Build left, what the reader returned
    cIn, cBytes, cOut,        \* codec study: a snapshot, its serialization, the decoded snapshot
    pc,                       \* the node: "running" or "crashed"
    evoDb,                    \* persistent store: block -> serialized snapshot (<<>>: no entry)
    quorumSnapshotCache,      \* CQuorumSnapshotManager's map: block -> snapshot (None: no entry)
    mapQuorumMembers,         \* LRU cache block hash -> members, least recently used first
    mapIndexedQuorumMembers,  \* LRU cache <<cycle base hash, quorumIndex>> -> members
    lastCall,                 \* the last GetAllQuorumMembers call and what it did
    builds,                   \* history: every run of BuildNewQuorumQuarterMembers, inputs and outputs
    firstWritten,             \* history: the first value written to evoDb under each key
    nCalls, nRestarts,        \* calls and restarts so far
    cs,                       \* CQuorumSnapshotManager::cs: the thread that holds it (0: free)
    threads,                  \* manager study: each thread's call and its position in it
    lastStored,               \* history: per block, the snapshot of the last Store that returned
    nMgrCalls,                \* manager study: calls made so far
    qIn, qOut,                \* rotation info study: request and chain, what the call left
    connIn, connOut,          \* connection study: a quorum and a pair, what the calls returned
    qwatchConnectionSeed,          \* the static seed of CalcDeterministicWatchConnections
    qwatchConnectionSeedGenerated, \* its static atomic flag
    qwatchConnectionSeedCs,        \* its static lock: the thread that holds it (0: free)
    watchers,                 \* watch study: each thread's position in its call, its rnd
    seedHistory,              \* history: every value assigned to the seed, in order
    fifoMaxSize,              \* circular_fifo_cache: maxSize (0: no cache constructed)
    internalCache,            \* circular_fifo_cache: its vector
    fifoInserted,             \* history: the items inserted since the last clear, in order
    fifoOut,                  \* fifo study: the last call and what it handed back
    nFifoCalls                \* fifo study: calls made so far

managerVars == <<cs, threads, lastStored, nMgrCalls>>
rotationVars == <<qIn, qOut>>
connectionVars == <<connIn, connOut>>
watchVars == <<qwatchConnectionSeed, qwatchConnectionSeedGenerated, qwatchConnectionSeedCs,
               watchers, seedHistory>>
planVars == <<connectionVars, watchVars>>
fifoVars == <<fifoMaxSize, internalCache, fifoInserted, fifoOut, nFifoCalls>>
studyVars == <<bIn, bOut, rOut, cIn, cBytes, cOut, cs, threads, lastStored, nMgrCalls, qIn, qOut,
               planVars>>
nodeVars == <<pc, evoDb, quorumSnapshotCache, mapQuorumMembers, mapIndexedQuorumMembers,
              lastCall, builds, firstWritten, nCalls, nRestarts>>
vars == <<hardened, bIn, bOut, rOut, cIn, cBytes, cOut, pc, evoDb, quorumSnapshotCache,
          mapQuorumMembers, mapIndexedQuorumMembers, lastCall, builds, firstWritten,
          nCalls, nRestarts, cs, threads, lastStored, nMgrCalls, qIn, qOut,
          connIn, connOut, qwatchConnectionSeed, qwatchConnectionSeedGenerated,
          qwatchConnectionSeedCs, watchers, seedHistory,
          fifoMaxSize, internalCache, fifoInserted, fifoOut, nFifoCalls>>

None == [status |-> "none"]
Aborted == [status |-> "abort"]

Blocks == 0..MaxHeight

\* The node before its first call: nothing stored, nothing cached.
NodeIdle ==
    /\ pc = "running"
    /\ evoDb = [b \in Blocks |-> <<>>]
    /\ quorumSnapshotCache = [b \in Blocks |-> None]
    /\ mapQuorumMembers = <<>>
    /\ mapIndexedQuorumMembers = <<>>
    /\ lastCall = None
    /\ builds = {}
    /\ firstWritten = [b \in Blocks |-> <<>>]
    /\ nCalls = 0 /\ nRestarts = 0

\* Threads that call the snapshot manager.
NumThreads == 2
Threads == 1..NumThreads

\* A thread outside the manager. Inside a call it holds op "Get" or "Store",
\* the block, the snapshot handed to Store, the caller's out object, what the
\* persistent write did, what the call returns and what the cache and the
\* persistent store held when the thread took the lock.
IdleThread ==
    [pc |-> "idle", op |-> "none", block |-> 0, snapshot |-> EmptySnapshot,
     out |-> EmptySnapshot, wrote |-> "none", ret |-> "none", pre |-> None]

\* The manager before its first call: the lock free, no thread inside.
ManagerIdle ==
    /\ cs = 0
    /\ threads = [t \in Threads |-> IdleThread]
    /\ lastStored = [b \in Blocks |-> None]
    /\ nMgrCalls = 0

\* No rotation info request made.
RotationIdle == qIn = None /\ qOut = None

\* Threads that call CalcDeterministicWatchConnections.
NumWatchers == 2
Watchers == 1..NumWatchers

\* The null uint256 a static uint256 starts with.
NullSeed == 0

\* A thread outside CalcDeterministicWatchConnections.
IdleWatcher ==
    [pc |-> "idle", memberCount |-> 0, writing |-> NullSeed, drawn |-> NullSeed,
     rnd |-> NullSeed, result |-> {}, calls |-> 0]

\* The statics of CalcDeterministicWatchConnections before the first call.
WatchIdle ==
    /\ qwatchConnectionSeed = NullSeed
    /\ qwatchConnectionSeedGenerated = FALSE
    /\ qwatchConnectionSeedCs = 0
    /\ watchers = [t \in Watchers |-> IdleWatcher]
    /\ seedHistory = <<>>

\* No connection planned, no watch connection calculated.
PlanIdle == connIn = None /\ connOut = None /\ WatchIdle

\* No circular_fifo_cache constructed.
FifoIdle ==
    /\ fifoMaxSize = 0
    /\ internalCache = <<>>
    /\ fifoInserted = <<>>
    /\ fifoOut = None
    /\ nFifoCalls = 0

\* ------------------------------------------------------ builder study: inputs
\* Previous quarters as GetPreviousQuorumQuarterMembers hands them over: for
\* each ancestor either n empty quarters (no snapshot) or n quarters of
\* quarterSize masternodes each, and H-2C (H-3C) only when H-C (H-2C) is there.
\* U holds the members, registered at the block or not any more; in ascending
\* order they fill the quarters of the ancestors present.
PresentAncestors == { {}, {1}, {1, 2}, {1, 2, 3} }

QuartersFrom(u, n, quarterSize) ==
    [i \in 1..n |-> SubSeq(u, (i - 1) * quarterSize + 1, i * quarterSize)]

AncestorQuarters(u, k, present, n, quarterSize) ==
    IF k \in present
    THEN LET j == Cardinality({a \in present : a < k})
         IN QuartersFrom(SubSeq(u, j * n * quarterSize + 1, (j + 1) * n * quarterSize),
                         n, quarterSize)
    ELSE EmptyQuarters(n)

PreviousQuartersOf(U, present, llmqParams) ==
    LET n == llmqParams.signingActiveQuorumCount
        quarterSize == llmqParams.size \div 4
        u == AscendingSeq(U)
    IN [quarterHMinusC  |-> AncestorQuarters(u, 1, present, n, quarterSize),
        quarterHMinus2C |-> AncestorQuarters(u, 2, present, n, quarterSize),
        quarterHMinus3C |-> AncestorQuarters(u, 3, present, n, quarterSize)]

BuildInputs(mns) ==
    { [llmqParams |-> x[1], allMns |-> AscendingSeq(x[2]), modifier |-> x[3],
       previousQuarters |-> PreviousQuartersOf(x[4], x[5], x[1])] :
         x \in { y \in LLMQParamsSet \X (SUBSET mns) \X (1..NumModifiers)
                         \X (SUBSET mns) \X PresentAncestors :
                   Cardinality(y[4]) = Cardinality(y[5])
                       * y[1].signingActiveQuorumCount * (y[1].size \div 4) } }

\* ----------------------------------------------------- builder study: actions
\* BuildNewQuorumQuarterMembers on the inputs
BuildStep ==
    /\ bIn.status = "ready" /\ bOut = None
    /\ LET r == BuildNewQuorumQuarterMembers(bIn.in.llmqParams, bIn.in.allMns,
                                             bIn.in.modifier, bIn.in.previousQuarters)
       IN bOut' = IF hardened /\ r.oob THEN Aborted ELSE r
    /\ UNCHANGED <<hardened, fifoVars, bIn, rOut, cIn, cBytes, cOut, nodeVars, managerVars, rotationVars, planVars>>

\* GetQuorumQuarterMembersBySnapshot on the snapshot Build stored for the block
ReadStep ==
    /\ bOut.status = "ok" /\ rOut = None
    /\ rOut' = GetQuorumQuarterMembersBySnapshot(bIn.in.llmqParams, bIn.in.allMns,
                                                 bIn.in.modifier, bOut.snapshot)
    /\ UNCHANGED <<hardened, fifoVars, bIn, bOut, cIn, cBytes, cOut, nodeVars, managerVars, rotationVars, planVars>>

InitBuild ==
    /\ hardened \in BOOLEAN
    /\ FifoIdle
    /\ bOut = None /\ rOut = None
    /\ cIn = None /\ cBytes = <<>> /\ cOut = None
    /\ ManagerIdle /\ RotationIdle /\ PlanIdle
    /\ NodeIdle
    /\ \E in \in BuildInputs(MNs) : bIn = [status |-> "ready", in |-> in]

NextBuild == BuildStep \/ ReadStep

SpecBuild == InitBuild /\ [][NextBuild]_vars


\* ================================================== claims: the builder study
BuildReturned == bOut.status = "ok"

BuiltMode == bOut.snapshot.mnSkipListMode

BuiltQuarterSize == bIn.in.llmqParams.size \div 4

BuiltUsed == MnsUsedAtH(bIn.in.llmqParams, bIn.in.previousQuarters)

\* C1: reconstruction fidelity. Whenever Build returned for a block in mode 0, 1
\* or 2 and GetQuorumQuarterMembersBySnapshot has run on the snapshot Build
\* stored, the reader returned (no exception, no undefined read) the same n
\* quarter lists, members and order, that Build returned; at least when every
\* member of the previous quarters is still in the list at the block.
C1_ReconstructionFidelity ==
    (/\ BuildReturned /\ rOut # None /\ BuiltMode \in {0, 1, 2}
     /\ Range(BuiltUsed) \subseteq Range(bIn.in.allMns))
        => (rOut.status = "ok" /\ rOut.quarters = bOut.quarters)

C7_NewQuartersDisjoint ==
    BuildReturned => NoDuplicates(Flatten(bOut.quarters))

\* C7 witness: Build returned two full quarters in mode 1.
C7_Witness ==
    /\ BuildReturned
    /\ Len(bOut.quarters) = 2
    /\ \A i \in 1..2 : Len(bOut.quarters[i]) = 1
    /\ BuiltMode = MODE_SKIPPING_ENTRIES


\* C4: no masternode that Build placed into a new quarter is a member of one
\* of the three previous quarters it was given, at least when the list holds
\* enough masternodes outside the previous quarters to fill the new quarters.
C4_NewQuarterNotInPrevious ==
    (/\ BuildReturned
     /\ Len(bIn.in.allMns) - Len(BuiltUsed)
            >= bIn.in.llmqParams.signingActiveQuorumCount * BuiltQuarterSize) =>
        \A i \in DOMAIN bOut.quarters :
            \A mn \in Range(bOut.quarters[i]) : ~ContainsMN(BuiltUsed, mn)


\* ================================================================ codec study
RECURSIVE SeqsUpTo(_, _)
SeqsUpTo(S, k) ==
    IF k = 0 THEN { <<>> }
    ELSE LET shorter == SeqsUpTo(S, k - 1)
         IN shorter \cup { Append(q, x) : q \in shorter, x \in S }

\* skip-list entries the study draws from
SkipValues == {-1, 2}

\* modes the study draws from: the four of SnapshotSkipMode, one below, one above
CodecModes == {-1, 0, 1, 2, 3, 4}

CodecInputs ==
    { [activeQuorumMembers |-> bits, mnSkipListMode |-> mode, mnSkipList |-> skip] :
         bits \in SeqsUpTo(BOOLEAN, MaxBits), mode \in CodecModes,
         skip \in SeqsUpTo(SkipValues, MaxSkipLen) }

\* ss << snapshot
SerializeStep ==
    /\ cIn.status = "ready" /\ cBytes = <<>>
    /\ cBytes' = Serialize(cIn.snapshot)
    /\ UNCHANGED <<hardened, fifoVars, bIn, bOut, rOut, cIn, cOut, nodeVars, managerVars, rotationVars, planVars>>

\* ss >> snapshot, into a default-constructed CQuorumSnapshot
UnserializeStep ==
    /\ cBytes # <<>> /\ cOut = None
    /\ cOut' = Unserialize(cBytes, EmptySnapshot)
    /\ UNCHANGED <<hardened, fifoVars, bIn, bOut, rOut, cIn, cBytes, nodeVars, managerVars, rotationVars, planVars>>

InitCodec ==
    /\ hardened = FALSE
    /\ FifoIdle
    /\ bIn = None /\ bOut = None /\ rOut = None
    /\ cBytes = <<>> /\ cOut = None
    /\ ManagerIdle /\ RotationIdle /\ PlanIdle
    /\ NodeIdle
    /\ \E x \in CodecInputs : cIn = [status |-> "ready", snapshot |-> x]

NextCodec == SerializeStep \/ UnserializeStep

SpecCodec == InitCodec /\ [][NextCodec]_vars

\* C2: codec round trip. Once a snapshot has been serialized and the bytes
\* unserialized, the decoded snapshot has the bit-set, the mode and the skip
\* list of the original (same lengths, same entries, same order).
C2_CodecRoundTrip ==
    cOut # None => (cOut.status = "ok" /\ cOut.snapshot = cIn.snapshot)

\* The fixture of the byte layout: 8 bits 0b10110010 (bit 0 first: 1,0,1,1,0,0,1,0),
\* mode 1, skip list [2, -1].
FixtureSnapshot ==
    [activeQuorumMembers |-> <<TRUE, FALSE, TRUE, TRUE, FALSE, FALSE, TRUE, FALSE>>,
     mnSkipListMode |-> 1, mnSkipList |-> <<2, -1>>]

FixtureBytes == <<1, 0, 0, 0, 8, 77, 2, 2, 0, 0, 0, 255, 255, 255, 255>>

\* The layout read field by field off the bytes Serialize wrote for x.
LayoutOk(x, b) ==
    LET nBits == Len(x.activeQuorumMembers)
        nBytes == (nBits + 7) \div 8
        nSkip == Len(x.mnSkipList)
        bitAt(i) == (b[5 + 1 + (i \div 8)] \div (2 ^ (i % 8))) % 2
    IN /\ Len(b) = 4 + 1 + nBytes + 1 + 4 * nSkip
       /\ ReadInt32(SubSeq(b, 1, 4)) = x.mnSkipListMode
       /\ b[5] = nBits
       /\ \A i \in 0..(8 * nBytes - 1) :
             bitAt(i) = (IF i < nBits /\ x.activeQuorumMembers[i + 1] THEN 1 ELSE 0)
       /\ b[5 + nBytes + 1] = nSkip
       /\ \A k \in 1..nSkip :
             LET at == 5 + nBytes + 1 + 4 * (k - 1)
             IN ReadInt32(SubSeq(b, at + 1, at + 4)) = x.mnSkipList[k]

\* C3: the byte layout of Serialize: mode as int32 LE, bit-set length as
\* compact-size, the bits packed LSB first into ceil(len/8) bytes with zero pad
\* bits, skip-list length as compact-size, every entry as int32 LE; and the
\* fixture snapshot serializes to 01 00 00 00 08 4D 02 02 00 00 00 FF FF FF FF.
C3_SnapshotByteLayout ==
    cBytes # <<>> =>
        /\ LayoutOk(cIn.snapshot, cBytes)
        /\ (cIn.snapshot = FixtureSnapshot => cBytes = FixtureBytes)

\* C3 witness: the fixture snapshot has been serialized.
C3_Witness == cBytes # <<>> /\ cIn.snapshot = FixtureSnapshot


\* ================================================================= the node
\* One rotating LLMQ type on one chain, driven through GetAllQuorumMembers.

MaxRestarts == 1
NumNodeMN == 8

\* The parameters of the node's rotating type.
NodeParams == [size |-> 4, signingActiveQuorumCount |-> 2, dkgInterval |-> 2]

\* deterministicMNManager->GetListForBlock(pindex): one registered set, the
\* same at every block, as many masternodes as two quorums of four take.
GetListForBlock(b) == AscendingSeq(1..NumNodeMN)

\* A modifier that mixes in a per-process salt.
SaltedModifier(b) == ((b + nRestarts) % NumModifiers) + 1

\* ::SerializeHash(std::make_pair(llmqParams.type, pindex->GetBlockHash()))
Modifier(b) == (b % NumModifiers) + 1

\* pindex->GetAncestor(height): no block below the genesis block
HasAncestor(height) == height >= 0

\* ---------------------------------------------------------- unordered_lru_cache
\* A cache is the sequence of its entries, least recently used first.
LruFind(cache, key) ==
    IF \E k \in 1..Len(cache) : cache[k].key = key
    THEN CHOOSE k \in 1..Len(cache) : cache[k].key = key
    ELSE 0

LruWithout(cache, key) ==
    LET other(e) == e.key # key IN SelectSeq(cache, other)

\* get(key, value): a hit makes the entry the most recently used one
LruGet(cache, key) ==
    LET k == LruFind(cache, key)
    IN IF k = 0
       THEN [found |-> FALSE, value |-> <<>>, cache |-> cache]
       ELSE [found |-> TRUE, value |-> cache[k].value,
             cache |-> Append(LruWithout(cache, key), cache[k])]

\* insert(key, value): the entry becomes the most recently used one; beyond
\* maxSize entries the least recently used one is evicted
LruInsert(cache, key, value, maxSize) ==
    LET c == Append(LruWithout(cache, key), [key |-> key, value |-> value])
    IN IF Len(c) > maxSize THEN Tail(c) ELSE c

\* InitQuorumsCache: each type's cache holds signingActiveQuorumCount + 1 entries
QuorumsCacheSize(llmqParams) == llmqParams.signingActiveQuorumCount + 1

\* ------------------------------------------------------- CQuorumSnapshotManager
\* A GetSnapshotForBlock that reports a snapshot for every block.
GetSnapshotOrDefault(cache, db, b) ==
    [found |-> TRUE,
     snapshot |-> IF cache[b] # None THEN cache[b] ELSE EmptySnapshot,
     cache |-> cache]

\* GetSnapshotForBlock: the cache entry if there is one, else the persistent
\* value, decoded and emplaced in the cache.
GetSnapshotForBlock(cache, db, b) ==
    IF cache[b] # None
    THEN [found |-> TRUE, snapshot |-> cache[b], cache |-> cache]
    ELSE IF db[b] # <<>>
    THEN LET read == Unserialize(db[b], EmptySnapshot)
         IN [found |-> TRUE, snapshot |-> read.snapshot,
             cache |-> [cache EXCEPT ![b] = read.snapshot]]
    ELSE [found |-> FALSE, snapshot |-> EmptySnapshot, cache |-> cache]

\* StoreSnapshotForBlock: evoDb.Write replaces the value under the key;
\* quorumSnapshotCache.emplace keeps an entry that is already there.
StoreSnapshotForBlock(cache, db, b, snapshot) ==
    [db |-> [db EXCEPT ![b] = Serialize(snapshot)],
     cache |-> [cache EXCEPT ![b] = IF @ = None THEN snapshot ELSE @]]

\* ------------------------------------------- GetPreviousQuorumQuarterMembers
\* The quarters of H-C, H-2C, H-3C as the reader rebuilds them from the
\* snapshots. H-2C is looked up only when H-C has a snapshot, H-3C only when
\* H-2C has one. GetSnapshotForBlock dereferences its block index: with no
\* such ancestor the node crashes (status "crash"). The reader can throw
\* (status "throw") or run past the end of a list (status "ub").
QuartersAt(llmqParams, b, snapshot) ==
    GetQuorumQuarterMembersBySnapshot(llmqParams, GetListForBlock(b), Modifier(b), snapshot)

\* quarters.quarterHMinusC, .quarterHMinus2C or .quarterHMinus3C = q, for k = 1, 2, 3
SetQuarters(quarters, k, q) ==
    IF k = 1 THEN [quarters EXCEPT !.quarterHMinusC = q]
    ELSE IF k = 2 THEN [quarters EXCEPT !.quarterHMinus2C = q]
    ELSE [quarters EXCEPT !.quarterHMinus3C = q]

\* The nested ifs, one level per ancestor k of <<H-C, H-2C, H-3C>>: look the
\* snapshot up (s), stop when there is none, rebuild the quarters from it (r).
RECURSIVE PreviousQuartersFrom(_, _, _, _, _)
RECURSIVE PreviousQuartersLookedUp(_, _, _, _, _, _)
RECURSIVE PreviousQuartersRead(_, _, _, _, _, _)
PreviousQuartersFrom(llmqParams, ancestors, k, acc, db) ==
    IF k > Len(ancestors) THEN acc
    ELSE IF ~HasAncestor(ancestors[k]) THEN [acc EXCEPT !.status = "crash"]
    ELSE PreviousQuartersLookedUp(llmqParams, ancestors, k, acc, db,
             GetSnapshotForBlock(acc.cache, db, ancestors[k]))

PreviousQuartersLookedUp(llmqParams, ancestors, k, acc, db, s) ==
    IF ~s.found THEN [acc EXCEPT !.cache = s.cache]
    ELSE PreviousQuartersRead(llmqParams, ancestors, k,
             [acc EXCEPT !.cache = s.cache, !.found = k], db,
             QuartersAt(llmqParams, ancestors[k], s.snapshot))

PreviousQuartersRead(llmqParams, ancestors, k, acc, db, r) ==
    IF r.status # "ok" THEN [acc EXCEPT !.status = r.status]
    ELSE PreviousQuartersFrom(llmqParams, ancestors, k + 1,
             [acc EXCEPT !.quarters = SetQuarters(@, k, r.quarters)], db)

GetPreviousQuorumQuarterMembers(llmqParams, hC, h2C, h3C, cache, db) ==
    PreviousQuartersFrom(llmqParams, <<hC, h2C, h3C>>, 1,
        [status |-> "ok",
         quarters |-> EmptyPreviousQuarters(llmqParams.signingActiveQuorumCount),
         cache |-> cache, found |-> 0],
        db)

\* ------------------------------------- ComputeQuorumMembersByQuarterRotation
\* quorumMembers[i]: quarter i of H-3C, of H-2C, of H-C, then new quarter i.
AssembleQuorums(llmqParams, previousQuarters, newQuarterMembers) ==
    [i \in 1..llmqParams.signingActiveQuorumCount |->
        previousQuarters.quarterHMinus3C[i] \o previousQuarters.quarterHMinus2C[i]
        \o previousQuarters.quarterHMinusC[i] \o newQuarterMembers[i]]

\* The computation did not return: the node crashed or an exception left it.
NotComputed(st, prev, db) ==
    [status |-> st, found |-> prev.found, cache |-> prev.cache, db |-> db,
     previousQuarters |-> prev.quarters, built |-> None, quorumMembers |-> <<>>]

\* After BuildNewQuorumQuarterMembers returned built: the snapshot is stored for
\* the base (stored) and the quorums are assembled.
ComputedWith(llmqParams, prev, built, stored) ==
    [status |-> "ok", found |-> prev.found, cache |-> stored.cache, db |-> stored.db,
     previousQuarters |-> prev.quarters, built |-> built,
     quorumMembers |-> AssembleQuorums(llmqParams, prev.quarters, built.quarters)]

\* BuildNewQuorumQuarterMembers at the base, given the previous quarters. An
\* index past the end of the quarter vector aborts a build that checks
\* indices; slicing more masternodes than the list holds ends the process too.
ComputedFromBuilt(llmqParams, base, db, prev, built) ==
    IF (hardened /\ built.oob) \/ built.status # "ok"
    THEN NotComputed("crash", prev, db)
    ELSE ComputedWith(llmqParams, prev, built,
             StoreSnapshotForBlock(prev.cache, db, base, built.snapshot))

ComputedFromPrevious(llmqParams, base, db, prev) ==
    IF prev.status = "throw" THEN NotComputed("throw", prev, db)
    ELSE IF prev.status # "ok" THEN NotComputed("crash", prev, db)
    ELSE ComputedFromBuilt(llmqParams, base, db, prev,
             BuildNewQuorumQuarterMembers(llmqParams, GetListForBlock(base),
                                          Modifier(base), prev.quarters))

ComputeQuorumMembersByQuarterRotation(llmqParams, base, cache, db) ==
    ComputedFromPrevious(llmqParams, base, db,
        GetPreviousQuorumQuarterMembers(llmqParams,
            base - llmqParams.dkgInterval, base - 2 * llmqParams.dkgInterval,
            base - 3 * llmqParams.dkgInterval, cache, db))

\* ---------------------------------------------------------- GetAllQuorumMembers
\* mapIndexedQuorumMembers.insert(<<cycle base, i>>, q[i]) for i in [0, q.size())
RECURSIVE InsertIndexed(_, _, _, _, _)
InsertIndexed(cache, base, q, i, maxSize) ==
    IF i >= Len(q) THEN cache
    ELSE InsertIndexed(LruInsert(cache, <<base, i>>, q[i + 1], maxSize),
                       base, q, i + 1, maxSize)

\* What a call left in lastCall. source: "by_block", "by_index" or "computed";
\* index: the quorumIndex handed to SetQuorumIndexQuorumHash (-1: not called).
Call(st, b, src, members, index, q) ==
    [status |-> st, block |-> b, source |-> src, members |-> members,
     index |-> index, compute |-> q]

\* The process is gone: nothing in memory survives, evoDb does.
Crash(b) ==
    /\ pc' = "crashed"
    /\ quorumSnapshotCache' = [x \in Blocks |-> None]
    /\ mapQuorumMembers' = <<>>
    /\ mapIndexedQuorumMembers' = <<>>
    /\ lastCall' = Call("crash", b, "computed", <<>>, -1, None)
    /\ UNCHANGED <<evoDb, builds, firstWritten>>

GetAllQuorumMembers(b) ==
    /\ pc = "running"
    /\ nCalls < MaxCalls
    /\ nCalls' = nCalls + 1
    /\ UNCHANGED <<hardened, fifoVars, studyVars, nRestarts>>
    /\ LET llmqParams == NodeParams
           maxSize == QuorumsCacheSize(llmqParams)
           byBlock == LruGet(mapQuorumMembers, b)
           quorumIndex == b % llmqParams.dkgInterval
           cycleQuorumBaseHeight == b - quorumIndex
           byIndex == LruGet(mapIndexedQuorumMembers, <<cycleQuorumBaseHeight, quorumIndex>>)
       IN IF byBlock.found
          THEN /\ mapQuorumMembers' = byBlock.cache
               /\ lastCall' = Call("returned", b, "by_block", byBlock.value, -1, None)
               /\ UNCHANGED <<pc, evoDb, quorumSnapshotCache, mapIndexedQuorumMembers,
                              builds, firstWritten>>
          ELSE IF byIndex.found
          THEN /\ mapIndexedQuorumMembers' = byIndex.cache
               /\ mapQuorumMembers' = LruInsert(mapQuorumMembers, b, byIndex.value, maxSize)
               /\ lastCall' = Call("returned", b, "by_index", byIndex.value, quorumIndex, None)
               /\ UNCHANGED <<pc, evoDb, quorumSnapshotCache, builds, firstWritten>>
          ELSE \E q \in {ComputeQuorumMembersByQuarterRotation(llmqParams,
                             cycleQuorumBaseHeight, quorumSnapshotCache, evoDb)} :
               IF q.status = "crash"
               THEN Crash(b)
               ELSE IF q.status = "throw"
               THEN /\ quorumSnapshotCache' = q.cache
                    /\ lastCall' = Call("throw", b, "computed", <<>>, -1, None)
                    /\ UNCHANGED <<pc, evoDb, mapQuorumMembers, mapIndexedQuorumMembers,
                                   builds, firstWritten>>
               ELSE /\ evoDb' = q.db
                    /\ quorumSnapshotCache' = q.cache
                    /\ mapIndexedQuorumMembers' =
                           InsertIndexed(mapIndexedQuorumMembers, cycleQuorumBaseHeight,
                                         q.quorumMembers, 0, maxSize)
                    /\ mapQuorumMembers' =
                           LruInsert(mapQuorumMembers, b, q.quorumMembers[1], maxSize)
                    /\ lastCall' = Call("returned", b, "computed", q.quorumMembers[1], 0,
                                        [found |-> q.found,
                                         again |-> \E e \in builds :
                                             /\ e.blockHash = cycleQuorumBaseHeight
                                             /\ e.previousQuarters = q.previousQuarters,
                                         previousQuarters |-> q.previousQuarters,
                                         newQuarterMembers |-> q.built.quarters,
                                         quorumMembers |-> q.quorumMembers])
                    /\ builds' = builds \cup
                           {[llmqParams |-> llmqParams,
                             allMns |-> GetListForBlock(cycleQuorumBaseHeight),
                             blockHash |-> cycleQuorumBaseHeight,
                             previousQuarters |-> q.previousQuarters,
                             snapshot |-> q.built.snapshot,
                             stored |-> q.db[cycleQuorumBaseHeight],
                             quarters |-> q.built.quarters]}
                    /\ firstWritten' =
                           [firstWritten EXCEPT ![cycleQuorumBaseHeight] =
                               IF @ = <<>> THEN q.db[cycleQuorumBaseHeight] ELSE @]
                    /\ UNCHANGED pc

\* The process ends and starts again: the static membership caches and the
\* snapshot manager's cache start empty over the same evoDb.
Restart ==
    /\ nRestarts < MaxRestarts
    /\ nRestarts' = nRestarts + 1
    /\ pc' = "running"
    /\ quorumSnapshotCache' = [x \in Blocks |-> None]
    /\ mapQuorumMembers' = <<>>
    /\ mapIndexedQuorumMembers' = <<>>
    /\ lastCall' = None
    /\ UNCHANGED <<hardened, fifoVars, studyVars, evoDb, builds, firstWritten, nCalls>>

StudiesIdle ==
    /\ bIn = None /\ bOut = None /\ rOut = None
    /\ cIn = None /\ cBytes = <<>> /\ cOut = None
    /\ ManagerIdle /\ RotationIdle /\ PlanIdle

Init ==
    /\ hardened \in BOOLEAN
    /\ FifoIdle
    /\ StudiesIdle
    /\ NodeIdle

Next == (\E b \in Blocks : GetAllQuorumMembers(b)) \/ Restart

Spec == Init /\ [][Next]_vars


\* ========================================================= claims: the node
Returned == lastCall.status = "returned"

Computed == Returned /\ lastCall.source = "computed"

\* The masternodes of the three previous quarters of the last computation,
\* quorum by quorum.
PreviousMembers(c) ==
    Flatten([i \in 1..NodeParams.signingActiveQuorumCount |->
                c.previousQuarters.quarterHMinus3C[i]
                \o c.previousQuarters.quarterHMinus2C[i]
                \o c.previousQuarters.quarterHMinusC[i]])

\* C5: whenever ComputeQuorumMembersByQuarterRotation ran for a cycle base
\* whose three ancestor snapshots exist, each quorum i is quarter i of H-3C,
\* of H-2C, of H-C and the new quarter i in this order, and has exactly size
\* members, all distinct; at least when the previous quarters it was given
\* are full and share no masternode, and the list holds enough masternodes
\* outside them to fill the new quarters.
C5_QuorumComposition ==
    (/\ Computed
     /\ lastCall.compute.found = 3
     /\ NoDuplicates(PreviousMembers(lastCall.compute))
     /\ Len(PreviousMembers(lastCall.compute))
            = 3 * NodeParams.signingActiveQuorumCount * (NodeParams.size \div 4)
     /\ NumNodeMN - Len(PreviousMembers(lastCall.compute))
            >= NodeParams.signingActiveQuorumCount * (NodeParams.size \div 4)) =>
        \A i \in 1..NodeParams.signingActiveQuorumCount :
            LET c == lastCall.compute
                quorum == c.quorumMembers[i]
            IN /\ quorum = c.previousQuarters.quarterHMinus3C[i]
                           \o c.previousQuarters.quarterHMinus2C[i]
                           \o c.previousQuarters.quarterHMinusC[i]
                           \o c.newQuarterMembers[i]
               /\ Len(quorum) = NodeParams.size
               /\ NoDuplicates(quorum)

\* C8: snapshot immutability. The persistent value under a block's key is the
\* first value ever written under it.
C8_SnapshotImmutable ==
    \A b \in Blocks : firstWritten[b] # <<>> => evoDb[b] = firstWritten[b]

C10_MembersOfQuorumIndex ==
    LET i == lastCall.block % NodeParams.dkgInterval
        base == lastCall.block - i
        byBlock == LruFind(mapQuorumMembers, lastCall.block)
    IN Returned =>
        /\ byBlock # 0
        /\ mapQuorumMembers[byBlock].value = lastCall.members
        /\ Computed =>
              /\ lastCall.members = lastCall.compute.quorumMembers[i + 1]
              /\ \A j \in 0..(NodeParams.signingActiveQuorumCount - 1) :
                    LET k == LruFind(mapIndexedQuorumMembers, <<base, j>>)
                    IN /\ k # 0
                       /\ mapIndexedQuorumMembers[k].value
                              = lastCall.compute.quorumMembers[j + 1]

\* C11: missing ancestor snapshots are handled per ancestor. After a
\* computation at a cycle base H whose three ancestors H-c, H-2c, H-3c exist,
\* for each k in {1,2,3} independently the quarters of H-kc are n empty lists
\* exactly when no snapshot is stored for H-kc, and otherwise they are what
\* GetQuorumQuarterMembersBySnapshot rebuilds from that block's snapshot.
C11_PerAncestorQuarters ==
    LET c == NodeParams.dkgInterval
        n == NodeParams.signingActiveQuorumCount
        base == lastCall.block - (lastCall.block % c)
        quartersOf(k) ==
            IF k = 1 THEN lastCall.compute.previousQuarters.quarterHMinusC
            ELSE IF k = 2 THEN lastCall.compute.previousQuarters.quarterHMinus2C
            ELSE lastCall.compute.previousQuarters.quarterHMinus3C
    IN (Computed /\ HasAncestor(base - 3 * c)) =>
        \A k \in 1..3 :
            LET s == GetSnapshotForBlock(quorumSnapshotCache, evoDb, base - k * c)
                r == QuartersAt(NodeParams, base - k * c, s.snapshot)
            IN IF ~s.found
               THEN quartersOf(k) = EmptyQuarters(n)
               ELSE r.status = "ok" => quartersOf(k) = r.quarters


\* ====================================================== the snapshot manager
\* Threads call GetSnapshotForBlock and StoreSnapshotForBlock of one
\* CQuorumSnapshotManager; each step of a call is one action.

MaxMgrCalls == 3
NumMgrBlocks == 1

\* The blocks the threads ask for.
MgrBlocks == 0..(NumMgrBlocks - 1)

\* Snapshots of an eight masternode list as BuildQuorumSnapshot leaves them:
\* nothing used, two used with nothing skipped, two used with one skip entry.
MgrSnapshots ==
    { [activeQuorumMembers |-> <<FALSE, FALSE, FALSE, FALSE, FALSE, FALSE, FALSE, FALSE>>,
       mnSkipListMode |-> MODE_NO_SKIPPING, mnSkipList |-> <<>>],
      [activeQuorumMembers |-> <<FALSE, FALSE, FALSE, TRUE, FALSE, FALSE, FALSE, TRUE>>,
       mnSkipListMode |-> MODE_SKIPPING_ENTRIES, mnSkipList |-> <<>>],
      [activeQuorumMembers |-> <<TRUE, FALSE, FALSE, TRUE, FALSE, FALSE, FALSE, FALSE>>,
       mnSkipListMode |-> MODE_SKIPPING_ENTRIES, mnSkipList |-> <<2>>] }

\* evoDb.Write(key, snapshot) as StoreSnapshotForBlock calls it, a statement
\* whose result nobody reads: the value is written, or the backend fails and
\* the call returns all the same, or the backend fails and the call throws.
WriteOutcomes == {"ok", "failed", "throw"}

\* evoDb.Read(key, snapshot): false when the key is absent, else the stored
\* bytes are decoded into the caller's object.
EvoDbRead(db, b, into) ==
    IF db[b] = <<>>
    THEN [found |-> FALSE, snapshot |-> into]
    ELSE LET read == Unserialize(db[b], into)
         IN [found |-> read.status = "ok", snapshot |-> read.snapshot]

\* An emplace that inserts nothing.
CacheEmplaceNothing(cache, b, snapshot) == cache

\* quorumSnapshotCache.emplace(snapshotHash, snapshot): an entry that is
\* already there stays.
CacheEmplace(cache, b, snapshot) ==
    [cache EXCEPT ![b] = IF @ = None THEN snapshot ELSE @]

\* A thread enters GetSnapshotForBlock or StoreSnapshotForBlock.
MgrCall(t) ==
    /\ threads[t].pc = "idle"
    /\ nMgrCalls < MaxMgrCalls
    /\ nMgrCalls' = nMgrCalls + 1
    /\ \E op \in {"Get", "Store"}, b \in MgrBlocks, x \in MgrSnapshots :
          threads' = [threads EXCEPT ![t] =
              [pc |-> "lock", op |-> op, block |-> b,
               snapshot |-> IF op = "Store" THEN x ELSE EmptySnapshot,
               out |-> EmptySnapshot, wrote |-> "none", ret |-> "none", pre |-> None]]
    /\ UNCHANGED <<cs, lastStored, evoDb, quorumSnapshotCache>>

\* LOCK(cs)
MgrLock(t) ==
    /\ threads[t].pc = "lock"
    /\ cs = 0
    /\ cs' = t
    /\ threads' = [threads EXCEPT
          ![t].pc = IF threads[t].op = "Get" THEN "find" ELSE "write",
          ![t].pre = [cache |-> quorumSnapshotCache, db |-> evoDb]]
    /\ UNCHANGED <<lastStored, nMgrCalls, evoDb, quorumSnapshotCache>>

\* quorumSnapshotCache.find(snapshotHash): a hit is copied out and returned
GetFind(t) ==
    /\ threads[t].pc = "find"
    /\ threads' = [threads EXCEPT ![t] =
          IF quorumSnapshotCache[@.block] # None
          THEN [@ EXCEPT !.out = quorumSnapshotCache[threads[t].block],
                         !.ret = "true", !.pc = "leave"]
          ELSE [@ EXCEPT !.pc = "read"]]
    /\ UNCHANGED <<cs, lastStored, nMgrCalls, evoDb, quorumSnapshotCache>>

\* evoDb.Read(..., snapshot): no value, return false
GetRead(t) ==
    /\ threads[t].pc = "read"
    /\ LET r == EvoDbRead(evoDb, threads[t].block, threads[t].out)
       IN threads' = [threads EXCEPT ![t] =
              IF r.found
              THEN [@ EXCEPT !.out = r.snapshot, !.pc = "emplace"]
              ELSE [@ EXCEPT !.out = r.snapshot, !.ret = "false", !.pc = "leave"]]
    /\ UNCHANGED <<cs, lastStored, nMgrCalls, evoDb, quorumSnapshotCache>>

\* quorumSnapshotCache.emplace(snapshotHash, snapshot); return true
GetEmplace(t) ==
    /\ threads[t].pc = "emplace"
    /\ threads[t].op = "Get"
    /\ quorumSnapshotCache' =
          CacheEmplace(quorumSnapshotCache, threads[t].block, threads[t].out)
    /\ threads' = [threads EXCEPT ![t].ret = "true", ![t].pc = "leave"]
    /\ UNCHANGED <<cs, lastStored, nMgrCalls, evoDb>>

\* evoDb.Write(..., snapshot)
StoreWrite(t) ==
    /\ threads[t].pc = "write"
    /\ \E outcome \in WriteOutcomes :
          /\ evoDb' = IF outcome = "ok"
                      THEN [evoDb EXCEPT ![threads[t].block] = Serialize(threads[t].snapshot)]
                      ELSE evoDb
          /\ threads' = [threads EXCEPT ![t] =
                IF outcome = "throw"
                THEN [@ EXCEPT !.wrote = outcome, !.ret = "throw", !.pc = "leave"]
                ELSE [@ EXCEPT !.wrote = outcome, !.pc = "emplace"]]
    /\ UNCHANGED <<cs, lastStored, nMgrCalls, quorumSnapshotCache>>

\* quorumSnapshotCache.emplace(snapshotHash, snapshot)
StoreEmplace(t) ==
    /\ threads[t].pc = "emplace"
    /\ threads[t].op = "Store"
    /\ quorumSnapshotCache' =
          CacheEmplace(quorumSnapshotCache, threads[t].block, threads[t].snapshot)
    /\ threads' = [threads EXCEPT ![t].ret = "returned", ![t].pc = "leave"]
    /\ UNCHANGED <<cs, lastStored, nMgrCalls, evoDb>>

\* The call returns, or an exception leaves it: the lock is released.
MgrLeave(t) ==
    /\ threads[t].pc = "leave"
    /\ cs' = 0
    /\ threads' = [threads EXCEPT ![t] = IdleThread]
    /\ lastStored' = IF threads[t].ret = "returned"
                     THEN [lastStored EXCEPT ![threads[t].block] = threads[t].snapshot]
                     ELSE lastStored
    /\ UNCHANGED <<nMgrCalls, evoDb, quorumSnapshotCache>>

\* The process ends with no thread in the manager and starts again: the
\* cache is empty, evoDb is what it was.
MgrRestart ==
    /\ nRestarts < MaxRestarts
    /\ \A t \in Threads : threads[t].pc = "idle"
    /\ nRestarts' = nRestarts + 1
    /\ quorumSnapshotCache' = [b \in Blocks |-> None]
    /\ threads' = [t \in Threads |-> IdleThread]
    /\ UNCHANGED <<cs, lastStored, nMgrCalls, evoDb>>

MgrStep(t) ==
    \/ MgrCall(t) \/ MgrLock(t)
    \/ GetFind(t) \/ GetRead(t) \/ GetEmplace(t)
    \/ StoreWrite(t) \/ StoreEmplace(t)
    \/ MgrLeave(t)

InitManager ==
    /\ hardened = FALSE
    /\ FifoIdle
    /\ bIn = None /\ bOut = None /\ rOut = None
    /\ cIn = None /\ cBytes = <<>> /\ cOut = None
    /\ ManagerIdle /\ RotationIdle /\ PlanIdle
    /\ NodeIdle

NextManager ==
    \/ /\ \E t \in Threads : MgrStep(t)
       /\ UNCHANGED <<hardened, fifoVars, bIn, bOut, rOut, cIn, cBytes, cOut, rotationVars, planVars, pc,
                      mapQuorumMembers, mapIndexedQuorumMembers, lastCall, builds,
                      firstWritten, nCalls, nRestarts>>
    \/ /\ MgrRestart
       /\ UNCHANGED <<hardened, fifoVars, bIn, bOut, rOut, cIn, cBytes, cOut, rotationVars, planVars, pc,
                      mapQuorumMembers, mapIndexedQuorumMembers, lastCall, builds,
                      firstWritten, nCalls>>

SpecManager == InitManager /\ [][NextManager]_vars


\* ============================================ claims: the snapshot manager
\* Thread t is about to return from GetSnapshotForBlock.
GetReturns(t) == threads[t].op = "Get" /\ threads[t].pc = "leave"

\* C12: GetSnapshotForBlock(type, B, out). With the key in the cache it
\* returns true with the cached snapshot; else, with the key in the persistent
\* store, it returns true with the snapshot evoDb.Read decodes and afterwards
\* the cache holds that snapshot under the key; with the key in neither it
\* returns false and leaves out, the cache and the persistent store as they
\* were. It never writes the persistent store.
C12_GetSnapshotContract ==
    \A t \in Threads :
        GetReturns(t) =>
            LET b == threads[t].block
                pre == threads[t].pre
            IN /\ evoDb = pre.db
               /\ IF pre.cache[b] # None
                  THEN /\ threads[t].ret = "true"
                       /\ threads[t].out = pre.cache[b]
                  ELSE IF pre.db[b] # <<>>
                  THEN /\ threads[t].ret = "true"
                       /\ threads[t].out = Unserialize(pre.db[b], EmptySnapshot).snapshot
                       /\ quorumSnapshotCache[b] = threads[t].out
                  ELSE /\ threads[t].ret = "false"
                       /\ threads[t].out = EmptySnapshot
                       /\ quorumSnapshotCache = pre.cache

\* C12 witness: a Get that missed the cache is about to return true with the
\* snapshot it read from the persistent store.
C12_Witness ==
    \E t \in Threads :
        /\ GetReturns(t)
        /\ threads[t].pre.cache[threads[t].block] = None
        /\ threads[t].pre.db[threads[t].block] # <<>>
        /\ threads[t].ret = "true"


\* Thread t is between LOCK(cs) and the end of the function.
InCriticalSection(t) == threads[t].pc \in {"find", "read", "emplace", "write", "leave"}

\* Thread t is in a StoreSnapshotForBlock call for block b that has not returned.
StoreInFlight(t, b) ==
    threads[t].op = "Store" /\ threads[t].block = b /\ threads[t].pc # "idle"

\* At most one call is inside the manager's critical section.
MutualExclusion == Cardinality({t \in Threads : InCriticalSection(t)}) <= 1

\* A Get returns a snapshot for a block only if a Store for it has returned.
GetOnlyAfterStore ==
    \A t \in Threads :
        (GetReturns(t) /\ threads[t].ret = "true") => lastStored[threads[t].block] # None

\* Within one run of the process: once a Store of s for a block has returned
\* and no other Store for the block is under way, a Get for it returns s.
GetReturnsLastStored ==
    \A t \in Threads :
        (/\ GetReturns(t)
         /\ nRestarts = 0
         /\ lastStored[threads[t].block] # None
         /\ \A u \in Threads : ~StoreInFlight(u, threads[t].block))
        => (/\ threads[t].ret = "true"
            /\ threads[t].out = lastStored[threads[t].block])

\* C13: in every interleaving of threads calling StoreSnapshotForBlock and
\* GetSnapshotForBlock at most one call is inside the critical section, a Get
\* returns a snapshot for a key only if a Store for that key has completed,
\* and after a Store of s has returned and before any other Store for the key
\* every Get for it returns s.
C13_StoreGetOrdering ==
    /\ MutualExclusion
    /\ GetOnlyAfterStore
    /\ GetReturnsLastStored


\* C14: when the persistent write made by StoreSnapshotForBlock fails, the
\* call does not return normally (the failure reaches the caller) and the
\* cache is what it was when the call began.
C14_WriteFailureSurfaced ==
    \A t \in Threads :
        (/\ threads[t].op = "Store"
         /\ threads[t].pc = "leave"
         /\ threads[t].wrote # "ok")
        => (/\ threads[t].ret = "throw"
            /\ quorumSnapshotCache = threads[t].pre.cache)

\* A snapshot is cached for block b.
Cached(b) == quorumSnapshotCache[b] # None

\* C15: the snapshot manager's cache never holds more than
\* signingActiveQuorumCount + 1 entries for the type, and a block whose entry
\* left the cache keeps its persistent copy.
C15_SnapshotCacheBounded ==
    Cardinality({b \in Blocks : Cached(b)}) <= NodeParams.signingActiveQuorumCount + 1


\* ============================================================ the reader
\* GetQuorumQuarterMembersBySnapshot on snapshots of any content: a bit-set of
\* the list's length or one bit longer or shorter, any mode, any skip list.

\* skip-list entries the reader study draws from: inside and outside a list
ReaderSkipValues == {-1, 0, 1}

\* The inputs with a list of size masternodes.
ReaderInputs(size) ==
    { [llmqParams |-> x[1], allMns |-> AscendingSeq(1..size), modifier |-> x[2],
       snapshot |-> [activeQuorumMembers |-> x[3], mnSkipListMode |-> x[4],
                     mnSkipList |-> x[5]]] :
         x \in { y \in LLMQParamsSet \X (1..NumModifiers)
                         \X SeqsUpTo(BOOLEAN, size + 1) \X (0..3)
                         \X SeqsUpTo(ReaderSkipValues, MaxSkipLen) :
                   Len(y[3]) >= size - 1 } }

\* GetQuorumQuarterMembersBySnapshot on the inputs
ReadSnapshotStep ==
    /\ bIn.status = "read" /\ rOut = None
    /\ rOut' = GetQuorumQuarterMembersBySnapshot(bIn.in.llmqParams, bIn.in.allMns,
                                                 bIn.in.modifier, bIn.in.snapshot)
    /\ UNCHANGED <<hardened, fifoVars, bIn, bOut, cIn, cBytes, cOut, managerVars, rotationVars, planVars, nodeVars>>

InitReader ==
    /\ hardened = FALSE
    /\ FifoIdle
    /\ bOut = None /\ rOut = None
    /\ cIn = None /\ cBytes = <<>> /\ cOut = None
    /\ ManagerIdle /\ RotationIdle /\ PlanIdle
    /\ NodeIdle
    /\ \E size \in 0..(NumMN - 1) :
          \E in \in ReaderInputs(size) : bIn = [status |-> "read", in |-> in]

NextReader == ReadSnapshotStep

SpecReader == InitReader /\ [][NextReader]_vars

\* ========================================================= claims: the reader
\* The reader has run on a snapshot whose bit-set has the length of the list,
\* and the list holds at least n * quarterSize masternodes.
ReadWellFormed ==
    /\ rOut # None
    /\ Len(bIn.in.snapshot.activeQuorumMembers) = Len(bIn.in.allMns)
    /\ Len(bIn.in.allMns) >=
          bIn.in.llmqParams.signingActiveQuorumCount * (bIn.in.llmqParams.size \div 4)

\* The quarters the reader returned: n empty ones in mode 3, else n quarters of
\* quarterSize masternodes each, no masternode twice.
ReadQuartersFull ==
    LET n == bIn.in.llmqParams.signingActiveQuorumCount
        quarterSize == bIn.in.llmqParams.size \div 4
    IN /\ rOut.status = "ok"
       /\ Len(rOut.quarters) = n
       /\ IF bIn.in.snapshot.mnSkipListMode = MODE_ALL_SKIPPED
          THEN rOut.quarters = EmptyQuarters(n)
          ELSE /\ \A i \in 1..n : Len(rOut.quarters[i]) = quarterSize
               /\ NoDuplicates(Flatten(rOut.quarters))

RotTipHeight == 8
MaxBases == 2
MaxCommitments == 5

\* request.baseBlockHashesNb > 4
MaxBaseBlockHashes == 4

\* A block in the block index that is not on the active chain, and a hash
\* that is not in the block index.
ForkHash == 100
UnknownHash == 200

\* LookupBlockIndex(hash): a block index or nullptr
LookupBlockIndex(hash) == hash \in (0..RotTipHeight) \cup {ForkHash}

\* chainActive.Contains(blockIndex)
ChainActiveContains(hash) == hash \in 0..RotTipHeight

\* blockIndex->nHeight (the block off the chain forked at height 3)
HeightOf(hash) == IF hash = ForkHash THEN 3 ELSE hash

\* chainActive.Genesis()->GetBlockHash(), chainActive.Tip()->GetBlockHash()
GenesisHash == 0
TipHash == RotTipHeight

\* The null uint256.
NullHash == -1

\* The response as the caller hands it in.
EmptyResponse ==
    [creationHeight |-> -1,
     snapshots |-> [k \in 1..3 |-> EmptySnapshot],
     mnListDiffTip |-> None,
     mnListDiffs |-> [k \in 1..3 |-> None]]

NoError == [kind |-> "", block |-> NullHash]

\* The call under way: status "running", "true", "false" or "throw"; errorRet;
\* the response; the chain and index calls made so far; baseBlockIndexes; how
\* many BuildSimplifiedMNListDiff calls were made; the manager's cache.
RotationStart(cache) ==
    [status |-> "running", errorRet |-> NoError, response |-> EmptyResponse,
     lookups |-> <<>>, baseBlockIndexes |-> <<>>, nDiffs |-> 0, cache |-> cache]

\* errorRet = ...; return false;
RotationFails(st, kind, block) ==
    [st EXCEPT !.status = "false", !.errorRet = [kind |-> kind, block |-> block]]

\* One call of chainActive or of the block index.
Looked(st, fn, hash) == [st EXCEPT !.lookups = Append(@, [fn |-> fn, hash |-> hash])]

\* std::sort of baseBlockIndexes by nHeight, ascending (insertion of x)
RECURSIVE InsertByHeight(_, _)
InsertByHeight(sorted, x) ==
    IF sorted = <<>> THEN <<x>>
    ELSE IF HeightOf(x) < HeightOf(Head(sorted)) THEN <<x>> \o sorted
    ELSE <<Head(sorted)>> \o InsertByHeight(Tail(sorted), x)

\* baseBlockIndexes left in the order of the request.
RequestOrder(list) == list

RECURSIVE SortByHeight(_)
SortByHeight(list) ==
    IF list = <<>> THEN <<>>
    ELSE InsertByHeight(SortByHeight(Tail(list)), Head(list))

\* GetLastBaseBlockHash: the hash of the last base not above blockIndex
RECURSIVE GetLastBaseBlockHashFrom(_, _, _)
GetLastBaseBlockHashFrom(baseBlockIndexes, height, hash) ==
    IF baseBlockIndexes = <<>> THEN hash
    ELSE IF HeightOf(Head(baseBlockIndexes)) > height THEN hash
    ELSE GetLastBaseBlockHashFrom(Tail(baseBlockIndexes), height, Head(baseBlockIndexes))

GetLastBaseBlockHash(baseBlockIndexes, blockIndex) ==
    GetLastBaseBlockHashFrom(baseBlockIndexes, HeightOf(blockIndex), NullHash)

\* BuildSimplifiedMNListDiff(base, target, diff, errorRet): the diff, or false
\* with an error; call number in.diffFailsAt fails (0: none, 1: the diff to the
\* tip, 2: the diff to H-C).
DiffBuilt(in, st) == st.nDiffs + 1 # in.diffFailsAt

BuildSimplifiedMNListDiff(base, target) == [base |-> base, target |-> target]


\* ------------------------------------------------ H-C, H-2C, H-3C (k = 1, 2, 3)
\* itQuorums->second.at(k) throws std::out_of_range with k commitments or less.
RECURSIVE RotationAncestor(_, _, _)
RECURSIVE RotationAncestorLooked(_, _, _, _)
RECURSIVE RotationAncestorRead(_, _, _, _, _)
RotationAncestor(in, k, st) ==
    IF k > 3 THEN [st EXCEPT !.status = "true"]
    ELSE IF Len(in.commitments.list) <= k THEN [st EXCEPT !.status = "throw"]
    ELSE RotationAncestorLooked(in, k,
             Looked(st, "LookupBlockIndex", in.commitments.list[k + 1]),
             in.commitments.list[k + 1])

RotationAncestorLooked(in, k, st, hash) ==
    IF ~LookupBlockIndex(hash) THEN RotationFails(st, "Can not find block H-kC", hash)
    ELSE IF ~DiffBuilt(in, st)
    THEN RotationFails([st EXCEPT !.nDiffs = @ + 1], "BuildSimplifiedMNListDiff", hash)
    ELSE RotationAncestorRead(in, k,
             [st EXCEPT !.nDiffs = @ + 1,
                        !.response.mnListDiffs[k] =
                            BuildSimplifiedMNListDiff(
                                GetLastBaseBlockHash(st.baseBlockIndexes, hash), hash)],
             hash, GetSnapshotForBlock(st.cache, in.db, hash))

\* The snapshots written into the response in the opposite order.
RotationAncestorReadReversed(in, k, st, hash, s) ==
    IF ~s.found
    THEN RotationFails([st EXCEPT !.cache = s.cache],
                       "Can not find quorum snapshot at H-kC", hash)
    ELSE RotationAncestor(in, k + 1,
             [st EXCEPT !.cache = s.cache, !.response.snapshots[4 - k] = s.snapshot])

RotationAncestorRead(in, k, st, hash, s) ==
    IF ~s.found
    THEN RotationFails([st EXCEPT !.cache = s.cache],
                       "Can not find quorum snapshot at H-kC", hash)
    ELSE RotationAncestor(in, k + 1,
             [st EXCEPT !.cache = s.cache, !.response.snapshots[k] = s.snapshot])

\* ----------------------------------- the requested block and its commitments
\* After LookupBlockIndex(itQuorums->second.at(0)->GetBlockHash())
RotationCreation(in, st, hash) ==
    IF ~LookupBlockIndex(hash) THEN RotationFails(st, "Can not find block H", hash)
    ELSE RotationAncestor(in, 1, [st EXCEPT !.response.creationHeight = HeightOf(hash)])

\* After LookupBlockIndex(request.blockRequestHash)
RotationRequested(in, st) ==
    IF ~LookupBlockIndex(in.request.blockRequestHash)
    THEN RotationFails(st, "block not found", in.request.blockRequestHash)
    ELSE IF ~in.commitments.present
    THEN RotationFails(st, "No InstantSend quorum found", NullHash)
    ELSE IF in.commitments.list = <<>>
    THEN RotationFails(st, "Empty list for InstantSend quorum", NullHash)
    ELSE RotationCreation(in, Looked(st, "LookupBlockIndex", in.commitments.list[1]),
                          in.commitments.list[1])

\* chainActive.Tip() and the diff from the highest base to the tip
RotationTip(in, st) ==
    IF ~DiffBuilt(in, st)
    THEN RotationFails([st EXCEPT !.nDiffs = @ + 1], "BuildSimplifiedMNListDiff", TipHash)
    ELSE RotationRequested(in,
             Looked([st EXCEPT !.nDiffs = @ + 1,
                               !.response.mnListDiffTip =
                                   BuildSimplifiedMNListDiff(
                                       st.baseBlockIndexes[Len(st.baseBlockIndexes)], TipHash)],
                    "LookupBlockIndex", in.request.blockRequestHash))

\* ------------------------------------------------------------------ the bases
\* for (const auto& blockHash : request.baseBlockHashes), then std::sort
RECURSIVE LookupBases(_, _, _)
RECURSIVE LookupBasesLooked(_, _, _, _)

\* The loop without the test of chainActive.Contains.
LookupBasesAnyChain(in, k, st, hash) ==
    IF ~LookupBlockIndex(hash) THEN RotationFails(st, "block not found", hash)
    ELSE LookupBases(in, k + 1,
             [Looked(st, "Contains", hash) EXCEPT !.baseBlockIndexes = Append(@, hash)])

LookupBases(in, k, st) ==
    IF k > Len(in.request.baseBlockHashes)
    THEN RotationTip(in, Looked([st EXCEPT !.baseBlockIndexes = SortByHeight(@)],
                                "Tip", TipHash))
    ELSE LookupBasesLooked(in, k,
             Looked(st, "LookupBlockIndex", in.request.baseBlockHashes[k]),
             in.request.baseBlockHashes[k])

LookupBasesLooked(in, k, st, hash) ==
    IF ~LookupBlockIndex(hash) THEN RotationFails(st, "block not found", hash)
    ELSE IF ~ChainActiveContains(hash)
    THEN RotationFails(Looked(st, "Contains", hash), "block is not in the active chain", hash)
    ELSE LookupBases(in, k + 1,
             [Looked(st, "Contains", hash) EXCEPT !.baseBlockIndexes = Append(@, hash)])

\* baseBlockHashesNb == 0: the genesis block is the base
RotationBases(in, st) ==
    IF in.request.baseBlockHashesNb = 0
    THEN RotationTip(in, Looked([Looked(st, "Genesis", GenesisHash)
                                    EXCEPT !.baseBlockIndexes = <<GenesisHash>>],
                                "Tip", TipHash))
    ELSE LookupBases(in, 1, st)

\* A check of the request that lets any count pass.
InvalidCountOnly(request) ==
    IF request.baseBlockHashesNb # Len(request.baseBlockHashes)
    THEN "missmatch requested baseBlockHashesNb and size(baseBlockHashes)"
    ELSE ""

\* The two checks of the request: the error string, "" when it passes.
InvalidRequest(request) ==
    IF request.baseBlockHashesNb > MaxBaseBlockHashes
    THEN "invalid requested baseBlockHashesNb"
    ELSE IF request.baseBlockHashesNb # Len(request.baseBlockHashes)
    THEN "missmatch requested baseBlockHashesNb and size(baseBlockHashes)"
    ELSE ""

BuildQuorumRotationInfo(in, cache) ==
    IF InvalidRequest(in.request) # ""
    THEN RotationFails(RotationStart(cache), InvalidRequest(in.request), NullHash)
    ELSE RotationBases(in, RotationStart(cache))

\* ------------------------------------------------------ rotation info: inputs
\* The lists of base hashes: up to MaxBases of the genesis block, a block of the
\* chain, the block off the chain and the unknown hash, and one list of five.
BaseHashLists ==
    SeqsUpTo({GenesisHash, 4, ForkHash, UnknownHash}, MaxBases)
        \cup { [i \in 1..(MaxBaseBlockHashes + 1) |-> GenesisHash] }

\* GetMinedAndActiveCommitmentsUntilBlock: no entry for the type, or the blocks
\* of its commitments, most recent first: the most recent one mined at the tip
\* or one dkgInterval below it, then one every dkgInterval below that.
CommitmentLists ==
    { [present |-> FALSE, list |-> <<>>] } \cup
    { [present |-> TRUE,
       list |-> [i \in 1..x[2] |-> x[1] - (i - 1) * NodeParams.dkgInterval]] :
          x \in { y \in {RotTipHeight, RotTipHeight - NodeParams.dkgInterval}
                          \X (0..MaxCommitments) :
                     y[2] <= (y[1] \div NodeParams.dkgInterval) + 1 } }

\* The snapshot stored for block b.
SnapshotOfBlock(b) ==
    [activeQuorumMembers |-> [i \in 1..NumNodeMN |-> i = (b \div 2) + 1],
     mnSkipListMode |-> MODE_SKIPPING_ENTRIES, mnSkipList |-> <<>>]

\* evoDb with snapshots for the blocks of S.
StoreWith(S) == [b \in Blocks |-> IF b \in S THEN Serialize(SnapshotOfBlock(b)) ELSE <<>>]

\* The inputs with the base hashes of the list hashes: the count that matches
\* the list or one more, the tip or an unknown block requested, any subset of
\* the snapshots of the blocks 0, 2, 4 and 6 stored.
RotationInputs(hashes) ==
    { [request |-> [baseBlockHashesNb |-> x[1], baseBlockHashes |-> hashes,
                    blockRequestHash |-> x[2]],
       commitments |-> x[3], db |-> StoreWith(x[4]), diffFailsAt |-> x[5]] :
         x \in {Len(hashes), Len(hashes) + 1} \X {TipHash, UnknownHash}
               \X CommitmentLists \X (SUBSET {0, 2, 4, 6}) \X (0..2) }

\* BuildQuorumRotationInfo(request, response, errorRet)
BuildRotationInfoStep ==
    /\ qIn.status = "ready" /\ qOut = None
    /\ \E r \in {BuildQuorumRotationInfo(qIn.in, quorumSnapshotCache)} :
          /\ qOut' = r
          /\ quorumSnapshotCache' = r.cache
    /\ UNCHANGED <<hardened, fifoVars, bIn, bOut, rOut, cIn, cBytes, cOut, managerVars, qIn, planVars, pc, evoDb,
                   mapQuorumMembers, mapIndexedQuorumMembers, lastCall, builds,
                   firstWritten, nCalls, nRestarts>>

InitRotation ==
    /\ hardened = FALSE
    /\ FifoIdle
    /\ bIn = None /\ bOut = None /\ rOut = None
    /\ cIn = None /\ cBytes = <<>> /\ cOut = None
    /\ ManagerIdle /\ PlanIdle
    /\ qOut = None
    /\ pc = "running"
    /\ quorumSnapshotCache = [b \in Blocks |-> None]
    /\ mapQuorumMembers = <<>>
    /\ mapIndexedQuorumMembers = <<>>
    /\ lastCall = None
    /\ builds = {}
    /\ firstWritten = [b \in Blocks |-> <<>>]
    /\ nCalls = 0 /\ nRestarts = 0
    /\ \E hashes \in BaseHashLists :
          \E in \in RotationInputs(hashes) :
              /\ qIn = [status |-> "ready", in |-> in]
              /\ evoDb = in.db

NextRotation == BuildRotationInfoStep

SpecRotation == InitRotation /\ [][NextRotation]_vars


\* ================================================== claims: the rotation info
\* The request of the call, its commitments and the blocks of H-C, H-2C, H-3C.
Request == qIn.in.request
Commitments == qIn.in.commitments.list
AncestorBlock(k) == Commitments[k + 1]

\* The call returned false with an error string.
ReturnedError == qOut.status = "false" /\ qOut.errorRet.kind # ""

\* C17: with fewer than 4 mined-and-active commitments of the rotation type
\* (0, 1, 2 or 3) BuildQuorumRotationInfo returns false with an error string;
\* it does not throw.
C17_ChainTooYoung ==
    (qOut # None /\ Len(Commitments) < 4) => ReturnedError

\* C18: BuildQuorumRotationInfo returns true only if the snapshots of H-C,
\* H-2C and H-3C are all in the snapshot store, and with four commitments and
\* one of the three snapshots absent it returns false with an error string.
C18_SnapshotMissing ==
    qOut # None =>
        /\ qOut.status = "true" =>
              /\ Len(Commitments) >= 4
              /\ \A k \in 1..3 : evoDb[AncestorBlock(k)] # <<>>
        /\ (/\ Len(Commitments) >= 4
            /\ \E k \in 1..3 : evoDb[AncestorBlock(k)] = <<>>) => ReturnedError

\* C18 witness: every check before it passed, the snapshot of H-C was found and
\* the call returned false for the missing snapshot of H-2C.
C18_Witness ==
    /\ qOut # None
    /\ qOut.status = "false"
    /\ qOut.errorRet = [kind |-> "Can not find quorum snapshot at H-kC", block |-> 4]
    /\ evoDb[6] # <<>>
    /\ evoDb[2] # <<>>

\* C19: a request whose baseBlockHashesNb is greater than 4 or differs from
\* the number of hashes listed is rejected: false with an error string, no
\* block looked up, the response as it was handed in.
C19_InvalidRequest ==
    (/\ qOut # None
     /\ \/ Request.baseBlockHashesNb > 4
        \/ Request.baseBlockHashesNb # Len(Request.baseBlockHashes)) =>
        /\ ReturnedError
        /\ qOut.lookups = <<>>
        /\ qOut.response = EmptyResponse

\* C19 witness: a request with five base hashes and the matching count has
\* been rejected.
C19_Witness ==
    /\ qOut # None
    /\ Request.baseBlockHashesNb = 5
    /\ Len(Request.baseBlockHashes) = 5
    /\ qOut.status = "false"

\* The blocks of the chain, the blocks of the block index.
OnActiveChain(hash) == hash \in 0..RotTipHeight
InBlockIndex(hash) == OnActiveChain(hash) \/ hash = ForkHash

\* The position of the first listed base that is not on the active chain
\* (0: every listed base is).
FirstBadBase ==
    LET bad == {j \in 1..Len(Request.baseBlockHashes) :
                   ~OnActiveChain(Request.baseBlockHashes[j])}
    IN IF bad = {} THEN 0 ELSE CHOOSE j \in bad : \A i \in bad : j <= i

\* C20: with no base hash listed the genesis block is the only base; with
\* bases listed the call fails as soon as one of them is not in the block
\* index (unknown block) or is not on the active chain, with an error that
\* names the block; the call goes on to the tip only if every listed base is
\* on the active chain.
C20_BaseBlocks ==
    (/\ qOut # None
     /\ Request.baseBlockHashesNb <= 4
     /\ Request.baseBlockHashesNb = Len(Request.baseBlockHashes)) =>
        LET hashes == Request.baseBlockHashes
            j == FirstBadBase
            wentOn == \E i \in 1..Len(qOut.lookups) : qOut.lookups[i].fn = "Tip"
        IN /\ hashes = <<>> => (qOut.baseBlockIndexes = <<GenesisHash>> /\ wentOn)
           /\ j # 0 =>
                 /\ qOut.status = "false"
                 /\ qOut.errorRet.block = hashes[j]
                 /\ qOut.errorRet.kind =
                        IF InBlockIndex(hashes[j]) THEN "block is not in the active chain"
                        ELSE "block not found"
                 /\ \A i \in 1..Len(qOut.lookups) :
                        \E m \in 1..j : qOut.lookups[i].hash = hashes[m]
                 /\ qOut.lookups[Len(qOut.lookups)].hash = hashes[j]
           /\ wentOn => \A m \in 1..Len(hashes) : OnActiveChain(hashes[m])
           /\ (hashes # <<>> /\ j = 0) =>
                 /\ wentOn
                 /\ Range(qOut.baseBlockIndexes) = Range(hashes)
                 /\ Len(qOut.baseBlockIndexes) = Len(hashes)

\* C20 witness: the first listed base is on the active chain, the second is in
\* the block index but off the chain, and the call failed naming it.
C20_Witness ==
    /\ qOut # None
    /\ Request.baseBlockHashesNb = 2
    /\ Request.baseBlockHashes = <<4, ForkHash>>
    /\ qOut.status = "false"
    /\ qOut.errorRet = [kind |-> "block is not in the active chain", block |-> ForkHash]

\* What the snapshot store holds for block b: the snapshot its persistent
\* entry decodes to.
HeldSnapshot(b) == Unserialize(evoDb[b], EmptySnapshot).snapshot

\* C21: when BuildQuorumRotationInfo returns true, response.creationHeight is
\* the height of the block of the most recent commitment (index 0), and the
\* three snapshots of the response are the snapshots the store holds for the
\* blocks of the commitments at index 1, 2 and 3, in that order.
C21_CreationHeightAndSnapshots ==
    (qOut # None /\ qOut.status = "true") =>
        /\ qOut.response.creationHeight = HeightOf(Commitments[1])
        /\ \A k \in 1..3 :
              /\ evoDb[AncestorBlock(k)] # <<>>
              /\ qOut.response.snapshots[k] = HeldSnapshot(AncestorBlock(k))

\* C21 witness: the most recent commitment is below the tip, the call returned
\* true and the three snapshots of the response differ from each other.
C21_Witness ==
    /\ qOut # None
    /\ qOut.status = "true"
    /\ Commitments[1] = RotTipHeight - NodeParams.dkgInterval
    /\ qOut.response.creationHeight = RotTipHeight - NodeParams.dkgInterval
    /\ \A j, k \in 1..3 : j # k => qOut.response.snapshots[j] # qOut.response.snapshots[k]


\* ==================================================== connection planning
\* DeterministicOutboundConnection and GetQuorumRelayMembers (utils.cpp). A
\* quorum is the sequence of its members' proTxHashes as GetAllQuorumMembers
\* returns them.

MaxQuorumSize == 9

\* ::SerializeHash(std::make_tuple(x, y, z)): a hash that gives different
\* values to tuples that differ in z only and does not follow the order of z.
SerializeHash3(x, y, z) == (3 * x + 5 * y + 7 * z) % 11

\* The naive choice: the numerically lower proTxHash.
DeterministicOutboundMin(proTxHash1, proTxHash2) ==
    IF proTxHash1 < proTxHash2 THEN proTxHash1 ELSE proTxHash2

DeterministicOutboundConnection(proTxHash1, proTxHash2) ==
    LET h1 == IF proTxHash1 < proTxHash2
              THEN SerializeHash3(proTxHash1, proTxHash2, proTxHash1)
              ELSE SerializeHash3(proTxHash2, proTxHash1, proTxHash1)
        h2 == IF proTxHash1 < proTxHash2
              THEN SerializeHash3(proTxHash1, proTxHash2, proTxHash2)
              ELSE SerializeHash3(proTxHash2, proTxHash1, proTxHash2)
    IN IF h1 < h2 THEN proTxHash1 ELSE proTxHash2

\* The while loop of calcOutbound. Its condition (gap_max >>= 1) || k <= 1
\* shifts gap_max each time it is evaluated. When the member at idx is the
\* member itself the body does `continue`: gap and k stay as they are, so the
\* same idx comes up again, for ever while k <= 1 (status "hang": the call
\* does not return), until gap_max is 0 otherwise.
RECURSIVE CalcOutboundLoop(_, _, _, _, _, _, _)
CalcOutboundLoop(i, proTxHash, mns, gap, gap_max, k, r) ==
    IF ~((gap_max \div 2) # 0 \/ k <= 1) THEN [status |-> "ok", r |-> r]
    ELSE IF mns[((i + gap) % Len(mns)) + 1] = proTxHash
    THEN IF k <= 1 THEN [status |-> "hang", r |-> r]
         ELSE CalcOutboundLoop(i, proTxHash, mns, gap, gap_max \div 2, k, r)
    ELSE CalcOutboundLoop(i, proTxHash, mns, 2 * gap, gap_max \div 2, k + 1,
                          r \cup {mns[((i + gap) % Len(mns)) + 1]})

\* calcOutbound with gap starting at 2.
CalcOutboundNoRing(i, proTxHash, mns) ==
    CalcOutboundLoop(i, proTxHash, mns, 2, Len(mns) - 1, 0, {})

\* calcOutbound(i, proTxHash): gap = 1, gap_max = mns.size() - 1, k = 0
CalcOutbound(i, proTxHash, mns) ==
    CalcOutboundLoop(i, proTxHash, mns, 1, Len(mns) - 1, 0, {})

\* for (size_t i = 0; i < mns.size(); i++)
RECURSIVE RelayMembersLoop(_, _, _, _, _)
RelayMembersLoop(i, mns, forMember, onlyOutbound, result) ==
    IF i >= Len(mns) THEN [status |-> "ok", result |-> result]
    ELSE IF mns[i + 1] # forMember /\ onlyOutbound
    THEN RelayMembersLoop(i + 1, mns, forMember, onlyOutbound, result)
    ELSE IF CalcOutbound(i, mns[i + 1], mns).status = "hang"
    THEN [status |-> "hang", result |-> result]
    ELSE IF mns[i + 1] = forMember
    THEN RelayMembersLoop(i + 1, mns, forMember, onlyOutbound,
                          result \cup CalcOutbound(i, mns[i + 1], mns).r)
    ELSE IF forMember \in CalcOutbound(i, mns[i + 1], mns).r
    THEN RelayMembersLoop(i + 1, mns, forMember, onlyOutbound, result \cup {mns[i + 1]})
    ELSE RelayMembersLoop(i + 1, mns, forMember, onlyOutbound, result)

\* The function without the members that relay to forMember.
GetQuorumRelayMembersOutbound(mns, forMember, onlyOutbound) ==
    RelayMembersLoop(0, mns, forMember, TRUE, {})

GetQuorumRelayMembers(mns, forMember, onlyOutbound) ==
    RelayMembersLoop(0, mns, forMember, onlyOutbound, {})

\* ------------------------------------------------------ GetQuorumConnections
\* The loop over mns with IsAllMembersConnectedEnabled: every member but
\* forMember, or with onlyOutbound only those that
\* DeterministicOutboundConnection(forMember, member) returns.
RECURSIVE AllConnectedLoop(_, _, _, _, _)
AllConnectedLoop(k, mns, forMember, onlyOutbound, result) ==
    IF k > Len(mns) THEN result
    ELSE IF mns[k] = forMember
    THEN AllConnectedLoop(k + 1, mns, forMember, onlyOutbound, result)
    ELSE IF ~onlyOutbound \/ DeterministicOutboundConnection(forMember, mns[k]) = mns[k]
    THEN AllConnectedLoop(k + 1, mns, forMember, onlyOutbound, result \cup {mns[k]})
    ELSE AllConnectedLoop(k + 1, mns, forMember, onlyOutbound, result)

\* The function with every other member connected, whatever onlyOutbound is.
GetQuorumConnectionsEveryMember(mns, forMember, onlyOutbound, allMembersConnected) ==
    IF allMembersConnected
    THEN [status |-> "ok", result |-> AllConnectedLoop(1, mns, forMember, FALSE, {})]
    ELSE GetQuorumRelayMembers(mns, forMember, onlyOutbound)

\* allMembersConnected: IsAllMembersConnectedEnabled(llmqParams.type)
GetQuorumConnections(mns, forMember, onlyOutbound, allMembersConnected) ==
    IF allMembersConnected
    THEN [status |-> "ok", result |-> AllConnectedLoop(1, mns, forMember, onlyOutbound, {})]
    ELSE GetQuorumRelayMembers(mns, forMember, onlyOutbound)

\* ------------------------------------------------- connection study: inputs
\* The quorums of n members: the proTxHashes 1..n in ascending and in
\* descending order.
QuorumLists(n) == { [k \in 1..n |-> k], [k \in 1..n |-> n + 1 - k] }

\* Nothing calculated yet: the relay sets of the members at index 0, 1, ...
\* calculated so far, and the DeterministicOutboundConnection calls made.
NoConnections == [relay |-> <<>>, outbound |-> {}, connections |-> <<>>]

\* The member at index Len(connOut.relay) calls GetQuorumRelayMembers for
\* itself.
RelayMembersStep ==
    /\ connIn.status = "ready"
    /\ Len(connOut.relay) < Len(connIn.mns)
    /\ connOut' = [connOut EXCEPT !.relay =
                      Append(@, GetQuorumRelayMembers(connIn.mns,
                                    connIn.mns[Len(connOut.relay) + 1],
                                    connIn.onlyOutbound))]
    /\ UNCHANGED <<hardened, fifoVars, bIn, bOut, rOut, cIn, cBytes, cOut, nodeVars, managerVars,
                   rotationVars, connIn, watchVars>>

\* The member at index Len(connOut.connections) calls GetQuorumConnections for
\* itself, with the spork for all-members-connected on and with it off. The
\* calls share no state with those of GetQuorumRelayMembers; the study makes
\* them once every member has made that call.
QuorumConnectionsStep ==
    /\ connIn.status = "ready"
    /\ Len(connOut.relay) = Len(connIn.mns)
    /\ Len(connOut.connections) < Len(connIn.mns)
    /\ connOut' = [connOut EXCEPT !.connections =
                      Append(@, [allConnected |->
                                     GetQuorumConnections(connIn.mns,
                                         connIn.mns[Len(connOut.connections) + 1],
                                         connIn.onlyOutbound, TRUE),
                                 relayed |->
                                     GetQuorumConnections(connIn.mns,
                                         connIn.mns[Len(connOut.connections) + 1],
                                         connIn.onlyOutbound, FALSE)])]
    /\ UNCHANGED <<hardened, fifoVars, bIn, bOut, rOut, cIn, cBytes, cOut, nodeVars, managerVars,
                   rotationVars, connIn, watchVars>>

\* DeterministicOutboundConnection(a, b) or (b, a)
DeterministicOutboundStep ==
    /\ connIn.status = "ready"
    /\ \E pair \in {<<connIn.a, connIn.b>>, <<connIn.b, connIn.a>>} :
          /\ \A c \in connOut.outbound : <<c.proTxHash1, c.proTxHash2>> # pair
          /\ connOut' = [connOut EXCEPT !.outbound = @ \cup
                            {[proTxHash1 |-> pair[1], proTxHash2 |-> pair[2],
                              ret |-> DeterministicOutboundConnection(pair[1], pair[2])]}]
    /\ UNCHANGED <<hardened, fifoVars, bIn, bOut, rOut, cIn, cBytes, cOut, nodeVars, managerVars,
                   rotationVars, connIn, watchVars>>

InitConnections ==
    /\ hardened = FALSE
    /\ FifoIdle
    /\ bIn = None /\ bOut = None /\ rOut = None
    /\ cIn = None /\ cBytes = <<>> /\ cOut = None
    /\ ManagerIdle /\ RotationIdle /\ WatchIdle
    /\ NodeIdle
    /\ \E n \in 0..MaxQuorumSize : \E mns \in QuorumLists(n) :
          \E onlyOutbound \in BOOLEAN : \E a, b \in MNs :
              connIn = [status |-> "ready", mns |-> mns, onlyOutbound |-> onlyOutbound,
                        a |-> a, b |-> b]
    /\ connOut = NoConnections

NextConnections == RelayMembersStep \/ QuorumConnectionsStep \/ DeterministicOutboundStep

SpecConnections == InitConnections /\ [][NextConnections]_vars

\* ============================================ claims: connection planning
\* The calls made for the pair: (a, b) and (b, a).
OutboundOf(p1, p2) ==
    (CHOOSE c \in connOut.outbound : c.proTxHash1 = p1 /\ c.proTxHash2 = p2).ret

OutboundCalled(p1, p2) ==
    \E c \in connOut.outbound : c.proTxHash1 = p1 /\ c.proTxHash2 = p2

\* H(min(a, b), max(a, b), x)
PairHash(a, b, x) == SerializeHash3(IF a < b THEN a ELSE b, IF a < b THEN b ELSE a, x)

\* C22: DeterministicOutboundConnection(a, b) for a # b returns one of a, b,
\* returns the same masternode for (a, b) and for (b, a), and returns a iff
\* H(min, max, a) < H(min, max, b): exactly one of the two is the initiator.
C22_DeterministicOutbound ==
    (connIn # None /\ connIn.a # connIn.b) =>
        /\ \A c \in connOut.outbound :
              /\ c.ret \in {c.proTxHash1, c.proTxHash2}
              /\ c.ret = c.proTxHash1 <=>
                    PairHash(c.proTxHash1, c.proTxHash2, c.proTxHash1)
                       < PairHash(c.proTxHash1, c.proTxHash2, c.proTxHash2)
        /\ (OutboundCalled(connIn.a, connIn.b) /\ OutboundCalled(connIn.b, connIn.a)) =>
              OutboundOf(connIn.a, connIn.b) = OutboundOf(connIn.b, connIn.a)

\* C22 witness: both calls were made for a pair whose numerically higher
\* proTxHash is the initiator.
C22_Witness ==
    /\ connIn # None
    /\ connIn.a < connIn.b
    /\ OutboundCalled(connIn.a, connIn.b) /\ OutboundCalled(connIn.b, connIn.a)
    /\ OutboundOf(connIn.a, connIn.b) = connIn.b
    /\ OutboundOf(connIn.b, connIn.a) = connIn.b

\* The quorum of the study, its size, and the relay set calculated for the
\* member at index i.
RelayQuorum == connIn.mns
RelayN == Len(connIn.mns)
RelayOf(i) == connOut.relay[i + 1]

\* The members at the indices (i + 2^k) mod n for the exponents of K, without
\* the member at index i itself.
RingGapSet(i, K) ==
    {RelayQuorum[((i + 2 ^ k) % RelayN) + 1] : k \in K} \ {RelayQuorum[i + 1]}

\* k = 0, 1, ... taken while floor((n-1) / 2^k) > 0 or k <= 1
StatedExponents ==
    {k \in 0..RelayN : \A j \in 0..k : ((RelayN - 1) \div (2 ^ j)) > 0 \/ j <= 1}

\* k = 0, 1, ... taken while floor((n-1) / 2^(k+1)) > 0 or k <= 1
ShiftedExponents ==
    {k \in 0..RelayN : \A j \in 0..k : ((RelayN - 1) \div (2 ^ (j + 1))) > 0 \/ j <= 1}

\* C23: for a quorum of n members with distinct proTxHashes the
\* outbound relay set of the member at index i is exactly the members at the
\* indices (i + 2^k) mod n for k = 0, 1, ... taken while floor((n-1)/2^k) > 0
\* or k <= 1, without the member itself.
C23_RelaySet_Stated ==
    (connIn # None /\ connIn.onlyOutbound) =>
        \A i \in 0..(Len(connOut.relay) - 1) :
            /\ RelayOf(i).status = "ok"
            /\ RelayOf(i).result = RingGapSet(i, StatedExponents)

\* What calcOutbound computes: for a quorum of n >= 3 members with distinct
\* proTxHashes the outbound relay set of the member at index i is exactly the
\* members at the indices (i + 2^k) mod n for k = 0, 1, ... taken while
\* floor((n-1)/2^(k+1)) > 0 or k <= 1 (k in 0..max(1, floor(log2(n-1)) - 1),
\* as the comment in calcOutbound has it), without the member itself; for
\* n = 1 and n = 2 the call does not return.
RelaySetComputed ==
    (connIn # None /\ connIn.onlyOutbound) =>
        \A i \in 0..(Len(connOut.relay) - 1) :
            IF RelayN >= 3
            THEN /\ RelayOf(i).status = "ok"
                 /\ RelayOf(i).result = RingGapSet(i, ShiftedExponents)
            ELSE RelayOf(i).status = "hang"

\* In a quorum of five every member has its relay set, and the member at
\* index 0 relays to the members at index 1 and 2 only.
RelaySetOfFive ==
    /\ connIn # None /\ connIn.onlyOutbound
    /\ RelayN = 5
    /\ Len(connOut.relay) = 5
    /\ RelayOf(0).status = "ok"
    /\ RelayOf(0).result = {RelayQuorum[2], RelayQuorum[3]}

\* floor(log2 n)
RECURSIVE Log2Floor(_)
Log2Floor(n) == IF n <= 1 THEN 0 ELSE 1 + Log2Floor(n \div 2)

\* The members reached from the set S along outbound relay edges.
RECURSIVE RelayReach(_)
RelayReach(S) ==
    LET next == S \cup UNION { RelayOf(i).result :
                                 i \in {j \in 0..(RelayN - 1) : RelayQuorum[j + 1] \in S} }
    IN IF next = S THEN S ELSE RelayReach(next)

\* C24: for every quorum size n >= 3 every member's outbound relay set has
\* between floor(log2 n) - 1 and floor(log2 n) + 1 entries, and the directed
\* graph of all members' outbound relay edges is strongly connected.
C24_RingGapCoverage ==
    (connIn # None /\ connIn.onlyOutbound /\ RelayN >= 3) =>
        /\ \A i \in 0..(Len(connOut.relay) - 1) :
              /\ RelayOf(i).status = "ok"
              /\ Cardinality(RelayOf(i).result) >= Log2Floor(RelayN) - 1
              /\ Cardinality(RelayOf(i).result) <= Log2Floor(RelayN) + 1
        /\ Len(connOut.relay) = RelayN =>
              \A m \in Range(RelayQuorum) : RelayReach({m}) = Range(RelayQuorum)

\* C24 witness: in a quorum of eight every member has its relay set, of
\* floor(log2 8) - 1 = 2 entries each.
C24_Witness ==
    /\ connIn # None /\ connIn.onlyOutbound
    /\ RelayN = 8
    /\ Len(connOut.relay) = 8
    /\ \A i \in 0..7 : RelayOf(i).status = "ok" /\ Cardinality(RelayOf(i).result) = 2


\* ================================================== the watch connections
\* CalcDeterministicWatchConnections called by several threads, statement by
\* statement. A thread's record: its position, its memberCount, the value it
\* is writing to the seed, the seed it read (drawn), its rnd, its result and
\* the calls it has finished.

MaxWatchCalls == 2

\* GetRandHash(): the values the study draws from.
SeedValues == {1, 2}

\* What a read of the seed gives while another thread is writing it, if it is
\* neither the old nor the new value.
TornSeed == 3

\* memberCount of the calls: members.size()
WatchMemberCounts == {3, 5}

\* ::SerializeHash(std::make_pair(rnd, std::make_pair(llmqType, blockHash)))
SerializeHashRnd(rnd) == (7 * rnd + 3) % 11

\* A thread enters CalcDeterministicWatchConnections(type, pindex, memberCount, 1).
WatchCall(t) ==
    /\ watchers[t].pc = "idle"
    /\ watchers[t].calls < MaxWatchCalls
    /\ \E memberCount \in WatchMemberCounts :
          watchers' = [watchers EXCEPT ![t].pc = "check", ![t].memberCount = memberCount,
                                       ![t].result = {}]
    /\ UNCHANGED <<qwatchConnectionSeed, qwatchConnectionSeedGenerated,
                   qwatchConnectionSeedCs, seedHistory>>

\* if (!qwatchConnectionSeedGenerated)
WatchCheck(t) ==
    /\ watchers[t].pc = "check"
    /\ watchers' = [watchers EXCEPT ![t].pc =
                       IF qwatchConnectionSeedGenerated THEN "read" ELSE "lock"]
    /\ UNCHANGED <<qwatchConnectionSeed, qwatchConnectionSeedGenerated,
                   qwatchConnectionSeedCs, seedHistory>>

\* LOCK(qwatchConnectionSeedCs)
WatchLock(t) ==
    /\ watchers[t].pc = "lock"
    /\ qwatchConnectionSeedCs = 0
    /\ qwatchConnectionSeedCs' = t
    /\ watchers' = [watchers EXCEPT ![t].pc = "assign"]
    /\ UNCHANGED <<qwatchConnectionSeed, qwatchConnectionSeedGenerated, seedHistory>>

\* qwatchConnectionSeed = GetRandHash(): the write of the 32 bytes begins ...
WatchAssign(t) ==
    /\ watchers[t].pc = "assign"
    /\ \E v \in SeedValues :
          watchers' = [watchers EXCEPT ![t].pc = "assigning", ![t].writing = v]
    /\ UNCHANGED <<qwatchConnectionSeed, qwatchConnectionSeedGenerated,
                   qwatchConnectionSeedCs, seedHistory>>

\* ... and ends.
WatchAssigned(t) ==
    /\ watchers[t].pc = "assigning"
    /\ qwatchConnectionSeed' = watchers[t].writing
    /\ seedHistory' = Append(seedHistory, watchers[t].writing)
    /\ watchers' = [watchers EXCEPT ![t].pc = "flag", ![t].writing = NullSeed]
    /\ UNCHANGED <<qwatchConnectionSeedGenerated, qwatchConnectionSeedCs>>

\* qwatchConnectionSeedGenerated = true
WatchSetFlag(t) ==
    /\ watchers[t].pc = "flag"
    /\ qwatchConnectionSeedGenerated' = TRUE
    /\ watchers' = [watchers EXCEPT ![t].pc = "unlock"]
    /\ UNCHANGED <<qwatchConnectionSeed, qwatchConnectionSeedCs, seedHistory>>

\* The end of the block: the lock is released.
WatchUnlock(t) ==
    /\ watchers[t].pc = "unlock"
    /\ qwatchConnectionSeedCs' = 0
    /\ watchers' = [watchers EXCEPT ![t].pc = "read"]
    /\ UNCHANGED <<qwatchConnectionSeed, qwatchConnectionSeedGenerated, seedHistory>>

\* The values a read of the seed can give: the seed, or, while a thread is
\* writing it (the read takes no lock), the old value, the new one or a mix.
SeedReads ==
    IF \E u \in Watchers : watchers[u].pc = "assigning"
    THEN {qwatchConnectionSeed, TornSeed}
             \cup {watchers[u].writing : u \in {w \in Watchers : watchers[w].pc = "assigning"}}
    ELSE {qwatchConnectionSeed}

\* uint256 rnd = qwatchConnectionSeed
WatchRead(t) ==
    /\ watchers[t].pc = "read"
    /\ \E v \in SeedReads :
          watchers' = [watchers EXCEPT ![t].pc = "loop", ![t].drawn = v, ![t].rnd = v]
    /\ UNCHANGED <<qwatchConnectionSeed, qwatchConnectionSeedGenerated,
                   qwatchConnectionSeedCs, seedHistory>>

\* The loop, run once (connectionCount = 1), and the return.
WatchReturn(t) ==
    /\ watchers[t].pc = "loop"
    /\ watchers' = [watchers EXCEPT
                       ![t].pc = "idle",
                       ![t].rnd = SerializeHashRnd(@),
                       ![t].result = {SerializeHashRnd(watchers[t].rnd)
                                         % watchers[t].memberCount},
                       ![t].calls = @ + 1]
    /\ UNCHANGED <<qwatchConnectionSeed, qwatchConnectionSeedGenerated,
                   qwatchConnectionSeedCs, seedHistory>>

WatchStep(t) ==
    \/ WatchCall(t) \/ WatchCheck(t) \/ WatchLock(t)
    \/ WatchAssign(t) \/ WatchAssigned(t) \/ WatchSetFlag(t) \/ WatchUnlock(t)
    \/ WatchRead(t) \/ WatchReturn(t)

InitWatch ==
    /\ hardened = FALSE
    /\ FifoIdle
    /\ bIn = None /\ bOut = None /\ rOut = None
    /\ cIn = None /\ cBytes = <<>> /\ cOut = None
    /\ ManagerIdle /\ RotationIdle /\ PlanIdle
    /\ NodeIdle

NextWatch ==
    /\ \E t \in Watchers : WatchStep(t)
    /\ UNCHANGED <<hardened, fifoVars, bIn, bOut, rOut, cIn, cBytes, cOut, nodeVars, managerVars,
                   rotationVars, connectionVars>>

SpecWatch == InitWatch /\ [][NextWatch]_vars

\* ======================================================= circular_fifo_cache
\* The capacities, the items and the number of calls the study runs.
MaxFifoSize == 3
NumFifoItems == 2
MaxFifoCalls == 8
FifoItems == 1..NumFifoItems

\* std::rotate(first, first + middle, last): the element at middle comes first.
Rotate(v, middle) == SubSeq(v, middle + 1, Len(v)) \o SubSeq(v, 1, middle)

\* The truncation without the rotation: the oldest items stay.
truncate_without_rotate(cache, max) ==
    IF Len(cache) = max * 2 THEN SubSeq(cache, 1, max) ELSE cache

\* truncate_if_needed(); truncateThreshold is maxSize * 2
truncate_if_needed(cache, max) ==
    IF Len(cache) = max * 2
    THEN SubSeq(Rotate(cache, Len(cache) - max), 1, max)
    ELSE cache

\* insert(v): push_back, truncate_if_needed
insert(cache, max, v) == truncate_if_needed(Append(cache, v), max)

\* emplace(v): emplace_back, truncate_if_needed
emplace(cache, max, v) == truncate_if_needed(Append(cache, v), max)

\* get(v): v with the copied items appended
get(cache, max, v) ==
    IF Len(cache) < max
    THEN v \o cache
    ELSE v \o SubSeq(cache, Len(cache) - max + 1, Len(cache))

\* back(value): what it returns and what value holds after the call
back(cache, value) ==
    IF cache = <<>>
    THEN [ret |-> FALSE, value |-> value]
    ELSE [ret |-> TRUE, value |-> cache[Len(cache)]]

InsertStep ==
    /\ fifoMaxSize > 0 /\ nFifoCalls < MaxFifoCalls
    /\ \E v \in FifoItems :
          /\ internalCache' = insert(internalCache, fifoMaxSize, v)
          /\ fifoInserted' = Append(fifoInserted, v)
          /\ fifoOut' = [op |-> "insert", v |-> v]
    /\ nFifoCalls' = nFifoCalls + 1
    /\ UNCHANGED <<hardened, bIn, bOut, rOut, cIn, cBytes, cOut, nodeVars, managerVars,
                   rotationVars, planVars, fifoMaxSize>>

EmplaceStep ==
    /\ fifoMaxSize > 0 /\ nFifoCalls < MaxFifoCalls
    /\ \E v \in FifoItems :
          /\ internalCache' = emplace(internalCache, fifoMaxSize, v)
          /\ fifoInserted' = Append(fifoInserted, v)
          /\ fifoOut' = [op |-> "emplace", v |-> v]
    /\ nFifoCalls' = nFifoCalls + 1
    /\ UNCHANGED <<hardened, bIn, bOut, rOut, cIn, cBytes, cOut, nodeVars, managerVars,
                   rotationVars, planVars, fifoMaxSize>>

ClearStep ==
    /\ fifoMaxSize > 0 /\ nFifoCalls < MaxFifoCalls
    /\ internalCache' = <<>>
    /\ fifoInserted' = <<>>
    /\ fifoOut' = [op |-> "clear"]
    /\ nFifoCalls' = nFifoCalls + 1
    /\ UNCHANGED <<hardened, bIn, bOut, rOut, cIn, cBytes, cOut, nodeVars, managerVars,
                   rotationVars, planVars, fifoMaxSize>>

\* get(v) with an empty vector or with one that holds an item already
GetStep ==
    /\ fifoMaxSize > 0 /\ nFifoCalls < MaxFifoCalls
    /\ \E v \in {<<>>} \cup {<<x>> : x \in FifoItems} :
          fifoOut' = [op |-> "get", arg |-> v, v |-> get(internalCache, fifoMaxSize, v)]
    /\ nFifoCalls' = nFifoCalls + 1
    /\ UNCHANGED <<hardened, bIn, bOut, rOut, cIn, cBytes, cOut, nodeVars, managerVars,
                   rotationVars, planVars, fifoMaxSize, internalCache, fifoInserted>>

\* back(value) with a value that is one of the items before the call
BackStep ==
    /\ fifoMaxSize > 0 /\ nFifoCalls < MaxFifoCalls
    /\ \E value \in FifoItems :
          fifoOut' = [op |-> "back", arg |-> value] @@ back(internalCache, value)
    /\ nFifoCalls' = nFifoCalls + 1
    /\ UNCHANGED <<hardened, bIn, bOut, rOut, cIn, cBytes, cOut, nodeVars, managerVars,
                   rotationVars, planVars, fifoMaxSize, internalCache, fifoInserted>>

\* A cache as its constructor leaves it, for every capacity the assert lets pass.
InitFifo ==
    /\ hardened = FALSE
    /\ bIn = None /\ bOut = None /\ rOut = None
    /\ cIn = None /\ cBytes = <<>> /\ cOut = None
    /\ ManagerIdle /\ RotationIdle /\ PlanIdle
    /\ NodeIdle
    /\ fifoMaxSize \in 1..MaxFifoSize
    /\ internalCache = <<>>
    /\ fifoInserted = <<>>
    /\ fifoOut = None
    /\ nFifoCalls = 0

NextFifo == InsertStep \/ EmplaceStep \/ ClearStep \/ GetStep \/ BackStep

SpecFifo == InitFifo /\ [][NextFifo]_vars

\* ========================================== claims: the watch connections
\* Thread t has read the seed in a call.
HasDrawn(t) == watchers[t].pc = "loop" \/ watchers[t].calls > 0

\* C25: in every interleaving of threads calling
\* CalcDeterministicWatchConnections the process-wide seed is assigned exactly
\* once (never a second time), and every call, also one that runs concurrently
\* with the first, derives its result from that one seed value.
C25_WatchSeedOnce ==
    /\ Len(seedHistory) <= 1
    /\ \A t \in Watchers :
          HasDrawn(t) => (seedHistory # <<>> /\ watchers[t].drawn = seedHistory[1])


\* ======================================= claims: the builder study, the modes
\* The inputs of the build under study, read off without the builder's code:
\* n, Used (every member of the previous quarters), the masternodes of the
\* list at the block that are not in Used, and sortedCombined (the free
\* masternodes by score, then Used by score).
BuiltN == bIn.in.llmqParams.signingActiveQuorumCount

StatedUsed ==
    UNION { Range(bIn.in.previousQuarters.quarterHMinusC[i])
              \cup Range(bIn.in.previousQuarters.quarterHMinus2C[i])
              \cup Range(bIn.in.previousQuarters.quarterHMinus3C[i]) : i \in 1..BuiltN }

StatedNotUsed == Range(bIn.in.allMns) \ StatedUsed

StatedCombined ==
    SortByScore(StatedNotUsed, bIn.in.modifier) \o SortByScore(StatedUsed, bIn.in.modifier)

\* The mode the selection rule gives.
StatedMode ==
    IF StatedUsed = {} THEN MODE_NO_SKIPPING
    ELSE IF Cardinality(StatedUsed) < Len(StatedCombined) \div 2 THEN MODE_SKIPPING_ENTRIES
    ELSE MODE_NO_SKIPPING_ENTRIES

\* The masternodes the selected mode's iteration can put into quarters: all of
\* sortedCombined in mode 0, the free ones in mode 1, Used in mode 2.
Pushable ==
    IF StatedMode = MODE_NO_SKIPPING THEN Len(StatedCombined)
    ELSE IF StatedMode = MODE_SKIPPING_ENTRIES THEN Cardinality(StatedNotUsed)
    ELSE Cardinality(StatedUsed)

\* The iteration reaches the end of sortedCombined before every quarter is full.
RunsOut == Pushable < BuiltN * BuiltQuarterSize

\* C26: if the builder reaches the end of sortedCombined before every quarter
\* has quarter_size members, BuildNewQuorumQuarterMembers stores a snapshot
\* with mode ALL_SKIPPED (3) and returns n empty quarters.
C26_AllSkippedWhenRunsOut ==
    (bOut # None /\ RunsOut) =>
        /\ bOut.status = "ok"
        /\ BuiltMode = MODE_ALL_SKIPPED
        /\ Len(bOut.quarters) = BuiltN
        /\ \A i \in 1..BuiltN : bOut.quarters[i] = <<>>

\* C27: the stored mode is 0, with an empty skip list, iff Used is empty; it
\* is 1 iff 0 < |Used| < floor(|sortedCombined| / 2); it is 2 in every other
\* case; in mode 0 quarter i consists of the elements [i * quarter_size,
\* (i + 1) * quarter_size) of sortedCombined, which lists the not-used
\* masternodes first and the used ones after them.
C27_ModeSelection ==
    BuildReturned =>
        /\ BuiltMode = MODE_NO_SKIPPING <=> StatedUsed = {}
        /\ BuiltMode = MODE_NO_SKIPPING => bOut.snapshot.mnSkipList = <<>>
        /\ BuiltMode = MODE_SKIPPING_ENTRIES <=>
              (0 < Cardinality(StatedUsed)
               /\ Cardinality(StatedUsed) < Len(StatedCombined) \div 2)
        /\ BuiltMode = MODE_NO_SKIPPING_ENTRIES <=>
              (0 < Cardinality(StatedUsed)
               /\ Cardinality(StatedUsed) >= Len(StatedCombined) \div 2)
        /\ BuiltMode = MODE_NO_SKIPPING =>
              \A i \in 0..(BuiltN - 1) :
                  bOut.quarters[i + 1] =
                      SubSeq(StatedCombined, i * BuiltQuarterSize + 1,
                             (i + 1) * BuiltQuarterSize)

\* C27 witness: Build returned in mode 2 with Used holding exactly
\* floor(|sortedCombined| / 2) masternodes.
C27_Witness ==
    /\ BuildReturned
    /\ BuiltMode = MODE_NO_SKIPPING_ENTRIES
    /\ Cardinality(StatedUsed) = Len(StatedCombined) \div 2

\* The sortedCombined indices at which the builder's loop records an entry:
\* it visits index j as long as fewer than n * quarter_size masternodes were
\* pushed before j, and records j when the masternode there is in Used
\* (mode 1) or is not (mode 2); the others are pushed.
RecordsAt(j) == (StatedCombined[j + 1] \in StatedUsed) = (StatedMode = MODE_SKIPPING_ENTRIES)

PushedBefore(j) == Cardinality({k \in 0..(j - 1) : ~RecordsAt(k)})

RecordedIndices ==
    {j \in 0..(Len(StatedCombined) - 1) :
        RecordsAt(j) /\ PushedBefore(j) < BuiltN * BuiltQuarterSize}

\* C28: for every snapshot the builder emits in mode 1 or mode 2, the set of
\* absolute indices the reader decodes from mnSkipList equals the set of
\* sortedCombined indices at which the builder recorded an entry, also when
\* the first recorded index is 0 and when two or more entries are recorded;
\* at least when every member of the previous quarters is in the list at the
\* block.
C28_SkipListIndices ==
    (/\ BuildReturned /\ rOut # None
     /\ BuiltMode \in {MODE_SKIPPING_ENTRIES, MODE_NO_SKIPPING_ENTRIES}
     /\ StatedUsed \subseteq Range(bIn.in.allMns)) =>
        /\ DecodeSkipList(1, 0, <<>>, bOut.snapshot.mnSkipList,
                          Len(bIn.in.allMns)).status = "ok"
        /\ Range(DecodeSkipList(1, 0, <<>>, bOut.snapshot.mnSkipList,
                                Len(bIn.in.allMns)).indices) = RecordedIndices

\* C29: the snapshot BuildQuorumSnapshot produces at block B has a bit-set
\* whose length is the number of masternodes in the list at B, and bit i is
\* set iff the i-th masternode of the list, in canonical iteration order, is
\* in Used (a member of one of the three previous quarters).
C29_ActiveMembersBits ==
    BuildReturned =>
        /\ Len(bOut.snapshot.activeQuorumMembers) = Len(bIn.in.allMns)
        /\ \A i \in 1..Len(bIn.in.allMns) :
              bOut.snapshot.activeQuorumMembers[i] <=> bIn.in.allMns[i] \in StatedUsed

\* C29 witness: Build returned for a list in which the first masternode is
\* free and a later one is used, with a member of the previous quarters that
\* is not in the list any more.
C29_Witness ==
    /\ BuildReturned
    /\ Len(bIn.in.allMns) >= 3
    /\ ~bOut.snapshot.activeQuorumMembers[1]
    /\ \E i \in 2..Len(bIn.in.allMns) : bOut.snapshot.activeQuorumMembers[i]
    /\ ~(StatedUsed \subseteq Range(bIn.in.allMns))

\* ==================================================== claims: the reader, II
\* C30: GetQuorumQuarterMembersBySnapshot fails with MalformedSnapshot,
\* without reading the bit-set out of range and without returning quarters,
\* whenever the snapshot's activeQuorumMembers length differs from the number
\* of masternodes in the list at B (shorter or longer).
C30_MalformedSnapshot ==
    (/\ bIn.status = "read" /\ rOut # None
     /\ Len(bIn.in.snapshot.activeQuorumMembers) # Len(bIn.in.allMns)) =>
        rOut.status = "malformed"

\* The absolute indices a skip list stands for: the first entry is absolute,
\* every later entry is added to the first.
StatedIndices(mnSkipList) ==
    [k \in 1..Len(mnSkipList) |->
        IF k = 1 THEN mnSkipList[1] ELSE mnSkipList[1] + mnSkipList[k]]

\* The reader ended in an error and returned no quarters.
ReadFailed ==
    /\ rOut.status \in {"throw", "malformed"}
    /\ \A i \in 1..Len(rOut.quarters) : rOut.quarters[i] = <<>>

\* C31: GetQuorumQuarterMembersBySnapshot, given a mode-1 or mode-2 snapshot
\* whose skip list decodes to an index outside [0, |sortedCombined|)
\* (a negative index from first + s included), ends in an error outcome and
\* returns no quarters; here for the snapshots the builder stored.
C31_SkipListOutOfRange ==
    (/\ BuildReturned /\ rOut # None
     /\ BuiltMode \in {MODE_SKIPPING_ENTRIES, MODE_NO_SKIPPING_ENTRIES}
     /\ \E k \in 1..Len(bOut.snapshot.mnSkipList) :
           StatedIndices(bOut.snapshot.mnSkipList)[k] \notin 0..(Len(bIn.in.allMns) - 1)) =>
        ReadFailed

\* ===================================================== claims: the codec, II
\* C32: decoding a snapshot whose serialized mode is not one of 0, 1, 2, 3
\* fails with MalformedSnapshot: no snapshot with an unknown mode is returned
\* by Unserialize or accepted by GetQuorumQuarterMembersBySnapshot.
C32_UnknownModeRejected ==
    (cOut # None /\ cIn.snapshot.mnSkipListMode \notin 0..3) =>
        /\ cOut.status # "ok"
        /\ \A p \in LLMQParamsSet :
              GetQuorumQuarterMembersBySnapshot(
                  p, AscendingSeq(1..Len(cIn.snapshot.activeQuorumMembers)), 1,
                  cIn.snapshot).status # "ok"

\* ================================================ claims: rotation info, II
\* The bases the call works with: those of the request, or the genesis block
\* for a request without bases.
StatedBases ==
    IF qIn.in.request.baseBlockHashes = <<>> THEN {GenesisHash}
    ELSE Range(qIn.in.request.baseBlockHashes)

\* The base with the greatest height not above the height of block b, the
\* null hash when every base is above it.
StatedBaseFor(b) ==
    IF \A x \in StatedBases : HeightOf(x) > HeightOf(b) THEN NullHash
    ELSE CHOOSE x \in StatedBases :
            /\ HeightOf(x) <= HeightOf(b)
            /\ \A y \in StatedBases : HeightOf(y) <= HeightOf(b) => HeightOf(y) <= HeightOf(x)

\* C33: base selection is independent of the order in which the request lists
\* the bases: mnListDiffTip is built from the base with the greatest height to
\* the active tip, and for each k in {1, 2, 3} the diff for H-kC is built from
\* the base with the greatest height not above the height of H-kC, the null
\* hash when every base is above it.
C33_BaseSelection ==
    qOut # None =>
        /\ qOut.response.mnListDiffTip # None =>
              /\ qOut.response.mnListDiffTip.target = TipHash
              /\ qOut.response.mnListDiffTip.base \in StatedBases
              /\ \A x \in StatedBases :
                    HeightOf(x) <= HeightOf(qOut.response.mnListDiffTip.base)
        /\ \A k \in 1..3 :
              qOut.response.mnListDiffs[k] # None =>
                  /\ qOut.response.mnListDiffs[k].target = AncestorBlock(k)
                  /\ qOut.response.mnListDiffs[k].base = StatedBaseFor(AncestorBlock(k))

\* C33 witness: the request lists the bases 4 and 0 in descending order, the
\* call returned true, the diffs to the tip and to H-C start at block 4 and
\* the diff to H-3C starts at the genesis block.
C33_Witness ==
    /\ qOut # None
    /\ qOut.status = "true"
    /\ qIn.in.request.baseBlockHashes = <<4, GenesisHash>>
    /\ qOut.response.mnListDiffTip.base = 4
    /\ qOut.response.mnListDiffs[1].base = 4
    /\ qOut.response.mnListDiffs[3].base = GenesisHash

\* C33, second witness of the null hash: the only base is above H-3C.
NullBaseReached ==
    /\ qOut # None
    /\ qOut.status = "true"
    /\ qOut.response.mnListDiffs[3].base = NullHash

\* ================================================== claims: the builder, III
\* C34: BuildNewQuorumQuarterMembers returns exactly n =
\* signingActiveQuorumCount quarter lists in every mode, so that
\* BuildQuorumSnapshotSkipList writes quarterMembers[i], and
\* ComputeQuorumMembersByQuarterRotation reads newQuarterMembers[i], only at
\* indices that exist, for every i in [0, n).
C34_ReturnsNQuarterLists ==
    bOut # None =>
        /\ bOut # Aborted
        /\ bOut.status = "ok" => (bOut.size = BuiltN /\ ~bOut.oob)

\* ================================================== claims: the manager, II
\* C35: after any sequence of StoreSnapshotForBlock and GetSnapshotForBlock
\* calls, two Stores of different snapshots under one key included, every
\* entry of the in-memory cache equals the value the persistent store holds
\* under the same key, so that GetSnapshotForBlock returns the same snapshot
\* from the cache and from the persistent store. Stated for the moments at
\* which no call holds the manager's lock.
C35_CacheMatchesStore ==
    cs = 0 =>
        \A b \in Blocks :
            Cached(b) =>
                /\ EvoDbRead(evoDb, b, EmptySnapshot).found
                /\ EvoDbRead(evoDb, b, EmptySnapshot).snapshot = quorumSnapshotCache[b]

\* A Store has returned whose snapshot the persistent store holds, while the
\* cache holds another snapshot, one without a skip list, under the same key.
TwoStoresDisagree ==
    /\ cs = 0
    /\ \E b \in Blocks :
          /\ Cached(b)
          /\ quorumSnapshotCache[b].mnSkipList = <<>>
          /\ lastStored[b] # None
          /\ EvoDbRead(evoDb, b, EmptySnapshot).snapshot = lastStored[b]
          /\ lastStored[b] # quorumSnapshotCache[b]

\* ========================================== claims: connection planning, II
\* C36: GetQuorumRelayMembers terminates for every quorum size n >= 1 and
\* every member index, n = 1 and n = 2 included, where (i + gap) mod n lands
\* on the member itself: the calcOutbound loop always reaches its exit.
C36_RelayMembersTerminates ==
    (connIn # None /\ RelayN >= 1) =>
        \A i \in 0..(Len(connOut.relay) - 1) : RelayOf(i).status = "ok"

\* ===================================================== claims: the node, II
\* The cycle base of the last call and its ancestor k cycles below.
LastBase == lastCall.block - (lastCall.block % NodeParams.dkgInterval)

LastAncestor(k) == LastBase - k * NodeParams.dkgInterval

PreviousQuarter(previousQuarters, k) ==
    IF k = 1 THEN previousQuarters.quarterHMinusC
    ELSE IF k = 2 THEN previousQuarters.quarterHMinus2C
    ELSE previousQuarters.quarterHMinus3C

\* C37: ComputeQuorumMembersByQuarterRotation at a cycle base B whose height
\* is below 3 * dkgInterval, where one or more of the ancestors at B-c, B-2c,
\* B-3c do not exist, treats each non-existent ancestor like a missing
\* snapshot (an empty previous quarter) and still returns n quorums; it never
\* looks up a snapshot through a missing block. Stated for the build that
\* does not check vector indices.
C37_MissingAncestors ==
    (/\ lastCall # None
     /\ ~hardened
     /\ lastCall.source = "computed"
     /\ LastBase < 3 * NodeParams.dkgInterval) =>
        /\ lastCall.status = "returned"
        /\ Len(lastCall.compute.quorumMembers) = NodeParams.signingActiveQuorumCount
        /\ \A k \in 1..3 :
              ~HasAncestor(LastAncestor(k)) =>
                  PreviousQuarter(lastCall.compute.previousQuarters, k)
                      = EmptyQuarters(NodeParams.signingActiveQuorumCount)

\* The outbound relay set of the member at index i, by the ring gaps.
OutboundRelaySet(i) == RingGapSet(i, ShiftedExponents)

\* The members whose outbound relay set contains the member at index i.
InboundRelaySet(i) ==
    {RelayQuorum[m + 1] : m \in {x \in 0..(RelayN - 1) : RelayQuorum[i + 1] \in OutboundRelaySet(x)}}

ConnectionsOf(i) == connOut.connections[i + 1].allConnected.result

\* C39: with all-members-connected enabled for the type, for every two
\* distinct members a and b of a quorum exactly one of 'b is in
\* GetQuorumConnections(forMember = a, onlyOutbound = true)' and 'a is in
\* GetQuorumConnections(forMember = b, onlyOutbound = true)' holds, and with
\* onlyOutbound = false the result for a is the set of all quorum members
\* other than a.
C39_AllMembersConnected ==
    connIn # None =>
        \A i \in 0..(Len(connOut.connections) - 1) :
            /\ connOut.connections[i + 1].allConnected.status = "ok"
            /\ ~connIn.onlyOutbound =>
                  ConnectionsOf(i) = Range(RelayQuorum) \ {RelayQuorum[i + 1]}
            /\ connIn.onlyOutbound =>
                  \A j \in 0..(Len(connOut.connections) - 1) :
                      i # j => (RelayQuorum[j + 1] \in ConnectionsOf(i))
                                   # (RelayQuorum[i + 1] \in ConnectionsOf(j))

\* C39 witness: every member of a quorum of five or more has its outbound
\* connections with the spork on, and the member with the lowest proTxHash
\* connects to some of the others and waits for the rest.
C39_Witness ==
    /\ connIn # None /\ connIn.onlyOutbound
    /\ RelayN >= 5
    /\ Len(connOut.connections) = RelayN
    /\ \E i \in 0..(RelayN - 1) :
          /\ RelayQuorum[i + 1] = 1
          /\ ConnectionsOf(i) # {}
          /\ ConnectionsOf(i) # Range(RelayQuorum) \ {1}

\* With the spork off GetQuorumConnections is GetQuorumRelayMembers.
ConnectionsRelayed ==
    connIn # None =>
        \A i \in 0..(Len(connOut.connections) - 1) :
            i < Len(connOut.relay) => connOut.connections[i + 1].relayed = RelayOf(i)

\* =============================================== claims: circular_fifo_cache
\* The last n items of s, in order.
LastItems(s, n) == SubSeq(s, Len(s) - n + 1, Len(s))

\* C40: circular_fifo_cache with capacity maxSize >= 1: after any sequence of
\* insert/emplace calls since construction or the last clear, the internal
\* size stays below 2 * maxSize, and get appends to its argument exactly the
\* last min(k, maxSize) inserted items in insertion order, where k is the
\* number of items inserted since the last clear; back returns false on an
\* empty cache and otherwise yields the most recently inserted item.
C40_FifoCache ==
    fifoMaxSize >= 1 =>
        /\ Len(internalCache) < 2 * fifoMaxSize
        /\ (fifoOut # None /\ fifoOut.op = "get") =>
              fifoOut.v = fifoOut.arg
                            \o LastItems(fifoInserted, Min(Len(fifoInserted), fifoMaxSize))
        /\ (fifoOut # None /\ fifoOut.op = "back") =>
              IF internalCache = <<>>
              THEN fifoOut.ret = FALSE /\ fifoInserted = <<>>
              ELSE /\ fifoOut.ret = TRUE
                   /\ fifoInserted # <<>>
                   /\ fifoOut.value = fifoInserted[Len(fifoInserted)]

\* C40 witness: a cache of capacity 2 that has truncated twice since the
\* last clear hands the last two of seven items, which differ, to a get whose
\* argument held an item.
C40_Witness ==
    /\ fifoMaxSize = 2
    /\ Len(fifoInserted) = 7
    /\ fifoOut # None /\ fifoOut.op = "get"
    /\ fifoOut.arg # <<>>
    /\ Len(fifoOut.v) = 3
    /\ fifoOut.v[2] # fifoOut.v[3]

====
